---------------------------- MODULE Spec2Model ----------------------------
(***************************************************************************)
(* Keyboard capture and emulation on Wayland (plover.oslayer.wayland).     *)
(*                                                                         *)
(* The module models                                                       *)
(*   - keyboardlayout.py : StringOutputLayout (the synthesized output      *)
(*     layout) and KeyComboLayout (the parser of a host keymap);           *)
(*   - keyboardcontrol.py: KeyboardHandler (the connection manager, the    *)
(*     singleton _keyboard), its dispatch thread, and the two facades      *)
(*     KeyboardCapture and KeyboardEmulation.                              *)
(*                                                                         *)
(* Python's None is the empty tuple and an object x that may be None is    *)
(* the 1-tuple <<x>>.  Characters are Unicode code points.                 *)
(***************************************************************************)
EXTENDS Integers, Sequences, FiniteSets, TLC

None == <<>>
Some(x) == <<x>>

(***************************************************************************)
(* Bounds of the model.                                                     *)
(***************************************************************************)
\* facades and direct callers never hold more than MaxRef references each
MaxRef == 2
\* requests a virtual keyboard accepts before the environment stops
\* producing further traffic for it
MaxReplayLog == 3
\* send_string / send_backspaces calls per output keyboard
MaxSends == 2

(***************************************************************************)
(* keyboardlayout.py                                                        *)
(***************************************************************************)
XKB_KEYCODE_OFFSET == 8
XKB_KEYCODE_MAX == 255
levels == 2

\* a key name of a keymap definition: <PLVR>, <C12>, <AC01>, ...
KeyName(id, n) == [id |-> id, n |-> n]
PLOVER_TAG == KeyName("PLVR", 0)
XK_BackSpace == 65288

\* the modifiers of xkb_types/xkb_compatibility "complete", by index
CompleteMods ==
    <<"Shift", "Lock", "Control", "Mod1", "Mod2", "Mod3", "Mod4", "Mod5",
      "NumLock", "Alt", "LevelThree", "Super">>

\* str.lower, str.upper (a string of code points) and str.isprintable,
\* for the code points below XKB_KEYCODE_MAX and their case images
lower(c) ==
    IF (c >= 65 /\ c <= 90) \/ (c >= 192 /\ c <= 222 /\ c # 215)
    THEN <<c + 32>> ELSE <<c>>

upper(c) ==
    IF (c >= 97 /\ c <= 122) \/ (c >= 224 /\ c <= 254 /\ c # 247)
    THEN <<c - 32>>
    ELSE IF c = 181 THEN <<924>>
    ELSE IF c = 223 THEN <<83, 83>>
    ELSE <<c>>

isprintable(c) == ~(c <= 31 \/ (c >= 127 /\ c <= 160) \/ c = 173)

\* plover.oslayer.xkeyboardcontrol.uchr_to_keysym: Latin-1 maps 1:1,
\* anything else to its Unicode keysym
uchr_to_keysym(c) == IF c < 256 THEN c ELSE 16777216 + c

printable(keycode_max) ==
    UNION {{v[1] : v \in {s \in {lower(c), upper(c)} :
                            Len(s) = 1 /\ isprintable(s[1])}} :
           c \in 0..(keycode_max - 1)}

\* sorted(S): the elements of a set of code points in ascending order
sorted(S) ==
    LET rank == [x \in S |-> Cardinality({y \in S : y < x})]
    IN [i \in 1..Cardinality(S) |-> CHOOSE x \in S : rank[x] = i - 1]

\* 1 << mod_level >> 1
mods_of_level(mod_level) == (2 ^ mod_level) \div 2

\* free_mappings with the two for clauses swapped: keycode by keycode, and
\* within a keycode level by level
free_mappings_keycode_major(max_mappings) ==
    [i \in 1..(levels * (max_mappings - 1)) |->
        [keycode |-> 1 + ((i - 1) \div levels),
         mod_level |-> (i - 1) % levels]]

\* the list the iterator free_mappings runs over: level by level, and
\* within a level keycode 1 .. max_mappings - 1
free_mappings(max_mappings) ==
    [i \in 1..(levels * (max_mappings - 1)) |->
        [keycode |-> 1 + ((i - 1) % (max_mappings - 1)),
         mod_level |-> (i - 1) \div (max_mappings - 1)]]

\* StringOutputLayout.__init__ for a set of printable characters and a
\* number of keycodes (XKB_KEYCODE_MAX - XKB_KEYCODE_OFFSET in the code)
StringOutputLayout__init__(chars, max_mappings) ==
    LET free == free_mappings(max_mappings)
        order == sorted(chars)
        n == Len(order)
        slot(k, l) == {i \in 1..n : free[i].keycode = k /\ free[i].mod_level = l}
    IN [_keymap |->
            [k \in 0..(max_mappings - 1) |->
                [l \in 0..(levels - 1) |->
                    IF slot(k, l) = {} THEN None
                    ELSE Some(uchr_to_keysym(order[CHOOSE i \in slot(k, l) : TRUE]))]],
        _char_to_combo |->
            [c \in chars |->
                LET i == CHOOSE j \in 1..n : order[j] = c
                IN <<free[i].keycode, mods_of_level(free[i].mod_level)>>],
        _next_extra_mapping_index |-> 0,
        _extra_mappings |->
            [j \in 1..(Len(free) - n) |->
                [keycode |-> free[n + j].keycode,
                 mod_level |-> free[n + j].mod_level,
                 char |-> None]]]

\* StringOutputLayout(): the layout the program constructs
StringOutputLayout ==
    StringOutputLayout__init__(printable(XKB_KEYCODE_MAX),
                               XKB_KEYCODE_MAX - XKB_KEYCODE_OFFSET)

\* string_to_combos_char with an index that stops at the last extra
\* mapping instead of wrapping around
string_to_combos_char_stuck(layout, char) ==
    IF char \in DOMAIN layout._char_to_combo
    THEN [layout |-> layout, combo |-> layout._char_to_combo[char],
          updated |-> FALSE]
    ELSE LET index == layout._next_extra_mapping_index
             extra_mapping == layout._extra_mappings[index + 1]
             old_char == extra_mapping.char
             combo == <<extra_mapping.keycode, mods_of_level(extra_mapping.mod_level)>>
             kept == IF old_char = None THEN DOMAIN layout._char_to_combo
                     ELSE DOMAIN layout._char_to_combo \ {old_char[1]}
         IN [layout |->
                [_keymap |->
                    (extra_mapping.keycode :>
                        ((extra_mapping.mod_level :> Some(uchr_to_keysym(char)))
                            @@ layout._keymap[extra_mapping.keycode]))
                        @@ layout._keymap,
                 _char_to_combo |->
                    (char :> combo) @@ [c \in kept |-> layout._char_to_combo[c]],
                 _next_extra_mapping_index |->
                    IF index + 1 < Len(layout._extra_mappings)
                    THEN index + 1 ELSE index,
                 _extra_mappings |->
                    [layout._extra_mappings EXCEPT
                        ![index + 1].char = Some(char)]],
             combo |-> combo,
             updated |-> TRUE]

\* string_to_combos_char without del self._char_to_combo[old_char]
string_to_combos_char_keeping(layout, char) ==
    IF char \in DOMAIN layout._char_to_combo
    THEN [layout |-> layout, combo |-> layout._char_to_combo[char],
          updated |-> FALSE]
    ELSE LET index == layout._next_extra_mapping_index
             extra_mapping == layout._extra_mappings[index + 1]
             combo == <<extra_mapping.keycode, mods_of_level(extra_mapping.mod_level)>>
         IN [layout |->
                [_keymap |->
                    (extra_mapping.keycode :>
                        ((extra_mapping.mod_level :> Some(uchr_to_keysym(char)))
                            @@ layout._keymap[extra_mapping.keycode]))
                        @@ layout._keymap,
                 _char_to_combo |-> (char :> combo) @@ layout._char_to_combo,
                 _next_extra_mapping_index |->
                    (index + 1) % Len(layout._extra_mappings),
                 _extra_mappings |->
                    [layout._extra_mappings EXCEPT
                        ![index + 1].char = Some(char)]],
             combo |-> combo,
             updated |-> TRUE]

\* string_to_combos_char with the index of the next extra mapping moving
\* backwards
string_to_combos_char_backward(layout, char) ==
    IF char \in DOMAIN layout._char_to_combo
    THEN [layout |-> layout, combo |-> layout._char_to_combo[char],
          updated |-> FALSE]
    ELSE LET index == layout._next_extra_mapping_index
             extra_mapping == layout._extra_mappings[index + 1]
             keycode == extra_mapping.keycode
             mod_level == extra_mapping.mod_level
             old_char == extra_mapping.char
             combo == <<keycode, mods_of_level(mod_level)>>
             kept == IF old_char = None THEN DOMAIN layout._char_to_combo
                     ELSE DOMAIN layout._char_to_combo \ {old_char[1]}
         IN [layout |->
                [_keymap |->
                    (keycode :> ((mod_level :> Some(uchr_to_keysym(char)))
                                    @@ layout._keymap[keycode]))
                        @@ layout._keymap,
                 _char_to_combo |->
                    (char :> combo) @@
                        (IF old_char = None THEN layout._char_to_combo
                         ELSE [c \in kept |-> layout._char_to_combo[c]]),
                 _next_extra_mapping_index |->
                    (index + Len(layout._extra_mappings) - 1)
                        % Len(layout._extra_mappings),
                 _extra_mappings |->
                    [layout._extra_mappings EXCEPT
                        ![index + 1].char = Some(char)]],
             combo |-> combo,
             updated |-> TRUE]

\* one iteration of the loop of string_to_combos: the layout after char,
\* its combo, and whether a slot was (re)assigned
string_to_combos_char(layout, char) ==
    IF char \in DOMAIN layout._char_to_combo
    THEN [layout |-> layout, combo |-> layout._char_to_combo[char],
          updated |-> FALSE]
    ELSE LET index == layout._next_extra_mapping_index
             extra_mapping == layout._extra_mappings[index + 1]
             keycode == extra_mapping.keycode
             mod_level == extra_mapping.mod_level
             old_char == extra_mapping.char
             combo == <<keycode, mods_of_level(mod_level)>>
             kept == IF old_char = None THEN DOMAIN layout._char_to_combo
                     ELSE DOMAIN layout._char_to_combo \ {old_char[1]}
         IN [layout |->
                [_keymap |->
                    (keycode :> ((mod_level :> Some(uchr_to_keysym(char)))
                                    @@ layout._keymap[keycode]))
                        @@ layout._keymap,
                 _char_to_combo |->
                    (char :> combo) @@
                        (IF old_char = None THEN layout._char_to_combo
                         ELSE [c \in kept |-> layout._char_to_combo[c]]),
                 _next_extra_mapping_index |->
                    (index + 1) % Len(layout._extra_mappings),
                 _extra_mappings |->
                    [layout._extra_mappings EXCEPT
                        ![index + 1].char = Some(char)]],
             combo |-> combo,
             updated |-> TRUE]

\* the loop of string_to_combos without the lookup of char in
\* _char_to_combo: every character claims an extra mapping
RECURSIVE string_to_combos_loop_unseen(_, _, _, _)
string_to_combos_loop_unseen(layout, string, lo, hi) ==
    IF lo > hi
    THEN [combo_list |-> <<>>, updated |-> FALSE, layout |-> layout]
    ELSE IF lo = hi
    THEN LET r == string_to_combos_char(
                      [layout EXCEPT !._char_to_combo =
                          [c \in DOMAIN @ \ {string[lo]} |-> @[c]]],
                      string[lo])
         IN [combo_list |-> <<r.combo>>, updated |-> r.updated,
             layout |-> r.layout]
    ELSE LET mid == (lo + hi) \div 2
             first == string_to_combos_loop_unseen(layout, string, lo, mid)
             rest == string_to_combos_loop_unseen(first.layout, string, mid + 1, hi)
         IN [combo_list |-> first.combo_list \o rest.combo_list,
             updated |-> first.updated \/ rest.updated,
             layout |-> rest.layout]

\* the loop of string_to_combos over string[lo..hi]: (updated, combo_list)
\* and the layout it leaves behind.  The iterations run in order: those of
\* the first half of the range, then, on the layout they leave, those of
\* the second half.
RECURSIVE string_to_combos_loop(_, _, _, _)
string_to_combos_loop(layout, string, lo, hi) ==
    IF lo > hi
    THEN [combo_list |-> <<>>, updated |-> FALSE, layout |-> layout]
    ELSE IF lo = hi
    THEN LET r == string_to_combos_char(layout, string[lo])
         IN [combo_list |-> <<r.combo>>, updated |-> r.updated,
             layout |-> r.layout]
    ELSE LET mid == (lo + hi) \div 2
             first == string_to_combos_loop(layout, string, lo, mid)
             rest == string_to_combos_loop(first.layout, string, mid + 1, hi)
         IN [combo_list |-> first.combo_list \o rest.combo_list,
             updated |-> first.updated \/ rest.updated,
             layout |-> rest.layout]

\* StringOutputLayout.string_to_combos
string_to_combos(layout, string) ==
    string_to_combos_loop(layout, string, 1, Len(string))

\* the keysyms of one key, empty levels dropped
RECURSIVE keysym_list(_, _)
keysym_list(row, l) ==
    IF l = levels THEN <<>>
    ELSE (IF row[l] = None THEN <<>> ELSE <<row[l][1]>>) \o keysym_list(row, l + 1)

\* the loop of to_xkb_def over enumerate(self._keymap): one key block per
\* keycode with at least one keysym, in keycode order
xkb_key_blocks(keymap) ==
    SelectSeq([i \in 1..Cardinality(DOMAIN keymap) |->
                  LET keysyms == keysym_list(keymap[i - 1], 0)
                  IN [name |-> KeyName("C", i - 1),
                      code |-> XKB_KEYCODE_OFFSET + (i - 1),
                      syms |-> [j \in 1..Len(keysyms) |-> <<keysyms[j]>>]]],
              LAMBDA block : block.syms # <<>>)

\* StringOutputLayout.to_xkb_def: the keymap definition, as the keys it
\* declares (name, keycode, one keysym list per level)
to_xkb_def(layout) ==
    [minimum |-> XKB_KEYCODE_OFFSET,
     maximum |-> XKB_KEYCODE_OFFSET + Cardinality(DOMAIN layout._keymap),
     mods |-> CompleteMods,
     keys |-> <<[name |-> PLOVER_TAG, code |-> XKB_KEYCODE_OFFSET,
                 syms |-> <<(<<XK_BackSpace>>)>>]>>
              \o xkb_key_blocks(layout._keymap),
     nul |-> FALSE]

(***************************************************************************)
(* KeyComboLayout: the table key name -> (keycode, modifier mask) of a     *)
(* host keymap.  A keymap buffer is the record to_xkb_def produces; nul    *)
(* says whether the buffer ends with a NUL byte.                           *)
(***************************************************************************)
\* dict[key] = value
Put(dict, key, value) ==
    [k \in DOMAIN dict \cup {key} |-> IF k = key THEN value ELSE dict[k]]

\* xkb.keysym_get_name for the keysyms of the model's host keymaps; a
\* keysym outside the table raises XKBInvalidKeysym
keysym_names ==
    (97 :> "a") @@ (65 :> "A") @@ (115 :> "s") @@ (83 :> "S") @@
    (65505 :> "Shift_L") @@ (65507 :> "Control_L") @@
    (269025062 :> "XF86Back")

\* str.lower on the names above and on the modifier names
str_lower(name) ==
    CASE name = "A" -> "a"
      [] name = "S" -> "s"
      [] name = "Shift_L" -> "shift_l"
      [] name = "Control_L" -> "control_l"
      [] name = "Shift" -> "shift"
      [] name = "Lock" -> "lock"
      [] name = "Control" -> "control"
      [] name = "Mod1" -> "mod1"
      [] name = "Mod2" -> "mod2"
      [] name = "Mod3" -> "mod3"
      [] name = "Mod4" -> "mod4"
      [] name = "Mod5" -> "mod5"
      [] name = "NumLock" -> "numlock"
      [] name = "Alt" -> "alt"
      [] name = "LevelThree" -> "levelthree"
      [] name = "Super" -> "super"
      [] OTHER -> name

\* keysym_name.startswith('XF86') and keysym_name[4:].lower()
is_xf86(name) == name \in {"XF86Back"}
xf86_alias(name) == CASE name = "XF86Back" -> "back" [] OTHER -> name
xf86_name(name) == CASE name = "XF86Back" -> "xf86_back" [] OTHER -> name

\* the modifiers dict: lower-cased modifier name -> 1 << mod_index, with
\* the _l/_r names of alt, control, shift and super
keymap_modifiers(keymap) ==
    LET base == [n \in {str_lower(keymap.mods[i]) : i \in 1..Len(keymap.mods)} |->
                    2 ^ ((CHOOSE i \in 1..Len(keymap.mods) :
                             str_lower(keymap.mods[i]) = n) - 1)]
        sided == {"alt", "control", "shift", "super"} \cap DOMAIN base
    IN [n \in DOMAIN base \cup {"alt_l", "alt_r", "control_l", "control_r",
                                "shift_l", "shift_r", "super_l", "super_r"} |->
           CASE n \in DOMAIN base -> base[n]
             [] n \in {"alt_l", "alt_r"} -> IF "alt" \in sided THEN base["alt"] ELSE 0
             [] n \in {"control_l", "control_r"} ->
                    IF "control" \in sided THEN base["control"] ELSE 0
             [] n \in {"shift_l", "shift_r"} ->
                    IF "shift" \in sided THEN base["shift"] ELSE 0
             [] OTHER -> IF "super" \in sided THEN base["super"] ELSE 0]

\* the (keycode, level) pairs the two nested loops visit, in order:
\* keycodes ascending, levels ascending within a keycode
keymap_levels(keymap) ==
    LET key_of(code) == CHOOSE i \in 1..Len(keymap.keys) : keymap.keys[i].code = code
        codes == {keymap.keys[i].code : i \in 1..Len(keymap.keys)}
        pairs == {<<code, level>> \in codes \X (0..(levels - 1)) :
                    level < Len(keymap.keys[key_of(code)].syms)}
        before(p, q) == p[1] < q[1] \/ (p[1] = q[1] /\ p[2] < q[2])
        rank == [p \in pairs |-> Cardinality({q \in pairs : before(q, p)})]
    IN [i \in 1..Cardinality(pairs) |->
           LET p == CHOOSE q \in pairs : rank[q] = i - 1
           IN [keycode |-> p[1], level |-> p[2],
               keysym |-> keymap.keys[key_of(p[1])].syms[p[2] + 1]]]

\* one iteration of the inner loop that ignores every name that is already
\* in combo_from_keyname, whatever the level
KeyComboLayout_level_first_wins(acc, modifiers, keycode, level, keysym) ==
    IF Len(keysym) # 1 THEN acc
    ELSE IF keysym[1] = 0 THEN acc
    ELSE IF keysym[1] \notin DOMAIN keysym_names THEN acc
    ELSE LET sym == keysym[1]
             raw == keysym_names[sym]
             keysym_name == IF is_xf86(raw) THEN xf86_name(raw) ELSE str_lower(raw)
             combo == <<keycode - XKB_KEYCODE_OFFSET,
                        IF keysym_name \in DOMAIN modifiers
                        THEN modifiers[keysym_name] ELSE 0>>
             named == Put(acc.combo_from_keyname, keysym_name, combo)
         IN IF keysym_name \in DOMAIN acc.combo_from_keyname
            THEN acc
            ELSE [combo_from_keyname |->
                      IF is_xf86(raw) THEN Put(named, xf86_alias(raw), combo)
                      ELSE named,
                  keysym_level |-> Put(acc.keysym_level, sym, level)]

\* one iteration of the inner loop: combo_from_keyname and keysym_level
\* after the level (keycode, level) with the keysyms keysym
KeyComboLayout_level(acc, modifiers, keycode, level, keysym) ==
    IF Len(keysym) # 1 THEN acc
    ELSE IF keysym[1] = 0 THEN acc
    ELSE IF keysym[1] \notin DOMAIN keysym_names THEN acc
    ELSE LET sym == keysym[1]
             raw == keysym_names[sym]
             keysym_name == IF is_xf86(raw) THEN xf86_name(raw) ELSE str_lower(raw)
             seen_level == IF sym \in DOMAIN acc.keysym_level
                           THEN acc.keysym_level[sym] ELSE 0
             combo == <<keycode - XKB_KEYCODE_OFFSET,
                        IF keysym_name \in DOMAIN modifiers
                        THEN modifiers[keysym_name] ELSE 0>>
             named == Put(acc.combo_from_keyname, keysym_name, combo)
         IN IF keysym_name \in DOMAIN acc.combo_from_keyname /\ level >= seen_level
            THEN acc
            ELSE [combo_from_keyname |->
                      IF is_xf86(raw) THEN Put(named, xf86_alias(raw), combo)
                      ELSE named,
                  keysym_level |-> Put(acc.keysym_level, sym, level)]

RECURSIVE KeyComboLayout_loop(_, _, _, _)
KeyComboLayout_loop(acc, modifiers, todo, i) ==
    IF i > Len(todo) THEN acc
    ELSE KeyComboLayout_loop(
             KeyComboLayout_level(acc, modifiers, todo[i].keycode,
                                  todo[i].level, todo[i].keysym),
             modifiers, todo, i + 1)

\* plover.key_combo.add_modifiers_aliases: the bare modifier names stand
\* for the left-hand keys
add_modifiers_aliases(dict) ==
    LET bare == {n \in {"alt", "control", "shift", "super"} :
                    (CASE n = "alt" -> "alt_l" [] n = "control" -> "control_l"
                       [] n = "shift" -> "shift_l" [] OTHER -> "super_l")
                    \in DOMAIN dict}
    IN [k \in DOMAIN dict \cup bare |->
           IF k \in bare
           THEN dict[CASE k = "alt" -> "alt_l" [] k = "control" -> "control_l"
                       [] k = "shift" -> "shift_l" [] OTHER -> "super_l"]
           ELSE dict[k]]

\* KeyComboLayout.__init__: _combo_from_keyname (the trailing NUL of the
\* buffer is ignored).  None of the names of the model's host keymaps is
\* in XKB_ALIASES, so the loop over XKB_ALIASES adds nothing.
KeyComboLayout(keymap) ==
    add_modifiers_aliases(
        KeyComboLayout_loop([combo_from_keyname |-> <<>>, keysym_level |-> <<>>],
                            keymap_modifiers(keymap), keymap_levels(keymap), 1)
        .combo_from_keyname)


(***************************************************************************)
(* keyboardcontrol.py: KeyboardHandler                                     *)
(***************************************************************************)
\* the interfaces _on_registry_global binds, by nick
INTERFACES == {"seat", "input_method", "virtual_keyboard"}

\* an exception: its type, the mode of a RuntimeError of
\* _ensure_interfaces, and the names it carries (the missing interfaces
\* of that RuntimeError, the key of a KeyError)
Exception(type, mode, names) == [type |-> type, mode |-> mode, names |-> names]

\* the requests of the virtual_keyboard protocol
KeymapRequest(fmt, keymap) == [request |-> "keymap", fmt |-> fmt, keymap |-> keymap]
KeyRequest(time, key, state) ==
    [request |-> "key", time |-> time, key |-> key, state |-> state]
ModifiersRequest(depressed, latched, locked, group) ==
    [request |-> "modifiers", depressed |-> depressed, latched |-> latched,
     locked |-> locked, group |-> group]

\* create_virtual_keyboard: a virtual keyboard and the requests made on it
VirtualKeyboard == [requests |-> <<>>]
Request(keyboard, r) == Some([requests |-> Append(keyboard[1].requests, r)])
Requests(keyboard, rs) == Some([requests |-> keyboard[1].requests \o rs])

\* KeyboardHandler.__init__
KeyboardHandler__init__ ==
    [_loop_thread |-> None,
     _pipe |-> None,
     _display |-> None,
     _interface |-> None,
     _keyboard |-> None,
     _keymap |-> None,
     _replay_keyboard |-> None,
     _replay_layout |-> None,
     _refcount_capture |-> 0,
     _grabbed_keyboard |-> None,
     _input_method |-> None,
     _event_listeners |-> [grab_key |-> {}, grab_modifiers |-> {}],
     _refcount_emulate |-> 0,
     _output_keyboard |-> None,
     _output_layout |-> None]

\* getattr(self, '_refcount_' + mode) and setattr
refcount_of(h, mode) ==
    IF mode = "capture" THEN h._refcount_capture ELSE h._refcount_emulate

set_refcount(h, mode, refcount) ==
    IF mode = "capture" THEN [h EXCEPT !._refcount_capture = refcount]
    ELSE [h EXCEPT !._refcount_emulate = refcount]

\* PLOVER_TAG in keymap
is_generated(keymap) ==
    \E i \in 1..Len(keymap.keys) : keymap.keys[i].name = PLOVER_TAG

\* _on_keymap without the test of the tag
_on_keymap_untested(h, fmt, keymap) ==
    IF h._keymap = Some(keymap)
    THEN h
    ELSE [h EXCEPT !._replay_layout = Some(KeyComboLayout(keymap)),
                   !._replay_keyboard = Request(@, KeymapRequest(fmt, keymap)),
                   !._keymap = Some(keymap)]

\* KeyboardHandler._on_keymap
_on_keymap(h, fmt, keymap) ==
    IF is_generated(keymap) \/ h._keymap = Some(keymap)
    THEN h
    ELSE [h EXCEPT !._replay_layout = Some(KeyComboLayout(keymap)),
                   !._replay_keyboard = Request(@, KeymapRequest(fmt, keymap)),
                   !._keymap = Some(keymap)]

\* KeyboardHandler._update_output_keymap
_update_output_keymap(h) ==
    [h EXCEPT !._output_keyboard =
        Request(@, KeymapRequest(1, to_xkb_def(h._output_layout[1])))]

\* KeyboardHandler._ensure_interfaces: the exception it raises, or None
_ensure_interfaces(h, mode, interface_list) ==
    LET missing_interfaces ==
            SelectSeq(interface_list, LAMBDA name : name \notin h._interface[1])
    IN IF missing_interfaces # <<>>
       THEN Some(Exception("RuntimeError", mode, missing_interfaces))
       ELSE None

\* KeyboardHandler._setup_base on a compositor whose registry advertises
\* the globals registry and whose seat keyboard announces host_keymap
\* during the second roundtrip
_setup_base(h, registry, host_keymap) ==
    LET connected == [h EXCEPT !._display = Some("Display"),
                               !._interface = Some(registry \cap INTERFACES)]
        bound == connected._interface[1]
        seated == [connected EXCEPT !._replay_keyboard = Some(VirtualKeyboard),
                                    !._keyboard = Some("wl_keyboard")]
    IN IF "virtual_keyboard" \notin bound
       THEN [h |-> connected,
             exc |-> Some(Exception("KeyError", "", <<"virtual_keyboard">>))]
       ELSE IF "seat" \notin bound
       THEN [h |-> connected, exc |-> Some(Exception("KeyError", "", <<"seat">>))]
       ELSE [h |-> [_on_keymap(seated, 1, host_keymap)
                        EXCEPT !._pipe = Some(""),
                               !._loop_thread = Some("Thread")],
             exc |-> None]

\* _teardown_base up to the join: os.write(self._pipe[1], b'quit')
_teardown_base_quit(h) == [h EXCEPT !._pipe = Some("quit")]

\* _teardown_base after the join that leaves _keymap as it is
_teardown_base_rest_keeps_keymap(h) ==
    [h EXCEPT !._loop_thread = None,
              !._pipe = IF h._loop_thread # None THEN None ELSE @,
              !._replay_keyboard = None,
              !._replay_layout = None,
              !._keyboard = None,
              !._interface = None,
              !._display = None]

\* _teardown_base once the thread is joined (or when there is none)
_teardown_base_rest(h) ==
    [h EXCEPT !._loop_thread = None,
              !._pipe = IF h._loop_thread # None THEN None ELSE @,
              !._replay_keyboard = None,
              !._replay_layout = None,
              !._keymap = None,
              !._keyboard = None,
              !._interface = None,
              !._display = None]

\* KeyboardHandler._setup_capture
_setup_capture(h) ==
    LET exc == _ensure_interfaces(h, "capture",
                                  <<"seat", "input_method", "virtual_keyboard">>)
    IN IF exc # None THEN [h |-> h, exc |-> exc]
       ELSE [h |-> [h EXCEPT !._input_method = Some("zwp_input_method_v2"),
                             !._grabbed_keyboard =
                                 Some("zwp_input_method_keyboard_grab_v2")],
             exc |-> None]

\* _teardown_capture that forgets to destroy the input method
_teardown_capture_keeps_input_method(h) ==
    [h EXCEPT !._event_listeners = [grab_key |-> {}, grab_modifiers |-> {}],
              !._grabbed_keyboard = None]

\* KeyboardHandler._teardown_capture
_teardown_capture(h) ==
    [h EXCEPT !._event_listeners = [grab_key |-> {}, grab_modifiers |-> {}],
              !._grabbed_keyboard = None,
              !._input_method = None]

\* KeyboardHandler._setup_emulate
_setup_emulate(h) ==
    LET exc == _ensure_interfaces(h, "emulate", <<"seat", "virtual_keyboard">>)
    IN IF exc # None THEN [h |-> h, exc |-> exc]
       ELSE [h |-> _update_output_keymap(
                       [h EXCEPT !._output_keyboard = Some(VirtualKeyboard),
                                 !._output_layout = Some(StringOutputLayout)]),
             exc |-> None]

\* KeyboardHandler._teardown_emulate
_teardown_emulate(h) ==
    [h EXCEPT !._output_keyboard = None, !._output_layout = None]

\* decref without its assertion refcount >= 0
decref_unasserted(h, mode) ==
    LET refcount == refcount_of(h, mode) - 1
        counted == set_refcount(h, mode, refcount)
        released == IF refcount # 0 THEN counted
                    ELSE IF mode = "capture" THEN _teardown_capture(counted)
                    ELSE _teardown_emulate(counted)
    IN IF released._refcount_capture + released._refcount_emulate # 0
       THEN [h |-> released, exc |-> None, join |-> FALSE]
       ELSE IF released._loop_thread # None
       THEN [h |-> _teardown_base_quit(released), exc |-> None, join |-> TRUE]
       ELSE [h |-> _teardown_base_rest(released), exc |-> None, join |-> FALSE]

\* decref that tears the connection down as soon as the count of its own
\* capability drops to 0
decref_per_mode(h, mode) ==
    LET refcount == refcount_of(h, mode) - 1
        counted == set_refcount(h, mode, refcount)
        released == IF refcount # 0 THEN counted
                    ELSE IF mode = "capture" THEN _teardown_capture(counted)
                    ELSE _teardown_emulate(counted)
    IN IF refcount < 0
       THEN [h |-> h, exc |-> Some(Exception("AssertionError", "", <<>>)),
             join |-> FALSE]
       ELSE IF refcount # 0
       THEN [h |-> released, exc |-> None, join |-> FALSE]
       ELSE IF released._loop_thread # None
       THEN [h |-> _teardown_base_quit(released), exc |-> None, join |-> TRUE]
       ELSE [h |-> _teardown_base_rest(released), exc |-> None, join |-> FALSE]

\* KeyboardHandler.decref.  join says that the call has reached
\* self._loop_thread.join() in _teardown_base: h is then the state at the
\* join, and _teardown_base_rest completes the call once the dispatch
\* thread has ended.
decref(h, mode) ==
    LET refcount == refcount_of(h, mode) - 1
        counted == set_refcount(h, mode, refcount)
        released == IF refcount # 0 THEN counted
                    ELSE IF mode = "capture" THEN _teardown_capture(counted)
                    ELSE _teardown_emulate(counted)
    IN IF refcount < 0
       THEN [h |-> h, exc |-> Some(Exception("AssertionError", "", <<>>)),
             join |-> FALSE]
       ELSE IF released._refcount_capture + released._refcount_emulate # 0
       THEN [h |-> released, exc |-> None, join |-> FALSE]
       ELSE IF released._loop_thread # None
       THEN [h |-> _teardown_base_quit(released), exc |-> None, join |-> TRUE]
       ELSE [h |-> _teardown_base_rest(released), exc |-> None, join |-> FALSE]

\* KeyboardHandler.incref: exc is the exception the call raises (after
\* the decref of its except clause), join as for decref
incref(h, mode, registry, host_keymap) ==
    LET refcount == refcount_of(h, mode) + 1
        counted == set_refcount(h, mode, refcount)
        total_refcount == counted._refcount_capture + counted._refcount_emulate
        base == IF total_refcount = 1
                THEN _setup_base(counted, registry, host_keymap)
                ELSE [h |-> counted, exc |-> None]
        setup == IF base.exc # None \/ refcount # 1 THEN base
                 ELSE IF mode = "capture" THEN _setup_capture(base.h)
                 ELSE _setup_emulate(base.h)
        undone == decref(setup.h, mode)
    IN IF setup.exc = None
       THEN [h |-> setup.h, exc |-> None, join |-> FALSE]
       ELSE [h |-> undone.h, exc |-> setup.exc, join |-> undone.join]

\* KeyboardHandler.add_event_listener / remove_event_listener, for the two
\* bound methods of a KeyboardCapture: facade stands for both
add_event_listeners(h, facade) ==
    [h EXCEPT !._event_listeners.grab_key = @ \cup {facade},
              !._event_listeners.grab_modifiers = @ \cup {facade}]

remove_event_listeners(h, facade) ==
    [h EXCEPT !._event_listeners.grab_key = @ \ {facade},
              !._event_listeners.grab_modifiers = @ \ {facade}]


(***************************************************************************)
(* keyboardcontrol.py: KeyboardCapture, and the grab handlers of           *)
(* KeyboardHandler that call its listeners                                 *)
(***************************************************************************)
\* plover.oslayer.xkeyboardcontrol.KEYCODE_TO_KEY, for two keys
KEYCODE_TO_KEY == (38 :> "a") @@ (39 :> "s")

\* a | b and a & ~b on non-negative integers
RECURSIVE BitOr(_, _)
BitOr(a, b) ==
    IF a = 0 THEN b
    ELSE IF b = 0 THEN a
    ELSE (IF a % 2 = 1 \/ b % 2 = 1 THEN 1 ELSE 0) + 2 * BitOr(a \div 2, b \div 2)

RECURSIVE BitAndNot(_, _)
BitAndNot(a, b) ==
    IF a = 0 THEN 0
    ELSE (IF a % 2 = 1 /\ b % 2 = 0 THEN 1 ELSE 0) + 2 * BitAndNot(a \div 2, b \div 2)

\* KeyboardCapture.__init__
KeyboardCapture__init__ ==
    [_started |-> FALSE, _mod_state |-> 0, _suppressed_keys |-> {}]

\* _on_grab_key that suppresses whatever the modifier state is
KeyboardCapture_on_grab_key_any_modifier(c, keycode, state) ==
    LET key == KEYCODE_TO_KEY[keycode + XKB_KEYCODE_OFFSET]
        suppressed == key \in c._suppressed_keys
    IN IF keycode + XKB_KEYCODE_OFFSET \notin DOMAIN KEYCODE_TO_KEY
       THEN [ret |-> FALSE, calls |-> <<>>]
       ELSE IF state = 1
       THEN [ret |-> suppressed, calls |-> <<[callback |-> "key_down", key |-> key]>>]
       ELSE [ret |-> suppressed, calls |-> <<[callback |-> "key_up", key |-> key]>>]

\* KeyboardCapture._on_grab_key: what it returns and the calls of
\* key_down / key_up it makes
KeyboardCapture_on_grab_key(c, keycode, state) ==
    LET key == KEYCODE_TO_KEY[keycode + XKB_KEYCODE_OFFSET]
        suppressed == key \in c._suppressed_keys
    IN IF keycode + XKB_KEYCODE_OFFSET \notin DOMAIN KEYCODE_TO_KEY
       THEN [ret |-> FALSE, calls |-> <<>>]
       ELSE IF state = 1
       THEN IF c._mod_state # 0
            THEN [ret |-> FALSE, calls |-> <<>>]
            ELSE [ret |-> suppressed, calls |-> <<[callback |-> "key_down", key |-> key]>>]
       ELSE [ret |-> suppressed, calls |-> <<[callback |-> "key_up", key |-> key]>>]

\* KeyboardCapture._on_grab_modifiers: the facade after the call and
\* what it returns
KeyboardCapture_on_grab_modifiers(c, depressed, latched, locked) ==
    [c |-> [c EXCEPT !._mod_state =
                BitAndNot(BitOr(BitOr(depressed, latched), locked), 16)],
     ret |-> FALSE]

\* KeyboardCapture.suppress_keyboard
suppress_keyboard(c, keys) == [c EXCEPT !._suppressed_keys = keys]

\* suppressed = cb(...): the last listener decides
assign(suppressed, returned) == returned

\* suppressed |= cb(...)
or_assign(suppressed, returned) == suppressed \/ returned

\* the loop of KeyboardHandler._on_grab_key over the registered listeners
\* (a set: the order is the set's)
RECURSIVE grab_key_listeners(_, _, _, _, _)
grab_key_listeners(todo, cap_, keycode, state, acc) ==
    IF todo = {} THEN acc
    ELSE LET cb == CHOOSE f \in todo : TRUE
             r == KeyboardCapture_on_grab_key(cap_[cb], keycode, state)
         IN grab_key_listeners(todo \ {cb}, cap_, keycode, state,
                [suppressed |-> or_assign(acc.suppressed, r.ret),
                 ret |-> Put(acc.ret, cb, r.ret),
                 calls |-> acc.calls \o
                     [i \in 1..Len(r.calls) |->
                         [facade |-> cb, callback |-> r.calls[i].callback,
                          key |-> r.calls[i].key]]])

\* the finally clause of _on_grab_key
forward_key(h, suppressed, origtime, keycode, state) ==
    IF ~suppressed
    THEN [h EXCEPT !._replay_keyboard = Request(@, KeyRequest(origtime, keycode, state))]
    ELSE h

\* KeyboardHandler._on_grab_key: the handler after the event, and what the
\* listeners did
_on_grab_key(h, cap_, origtime, keycode, state) ==
    LET done == grab_key_listeners(h._event_listeners.grab_key, cap_, keycode, state,
                                   [suppressed |-> FALSE, ret |-> <<>>, calls |-> <<>>])
    IN [h |-> forward_key(h, done.suppressed, origtime, keycode, state),
        ret |-> done.ret, calls |-> done.calls]

\* the finally clause of _on_grab_modifiers
forward_modifiers(h, suppressed, depressed, latched, locked, layout) ==
    IF ~suppressed
    THEN [h EXCEPT !._replay_keyboard =
              Request(@, ModifiersRequest(depressed, latched, locked, layout))]
    ELSE h

\* the loop of KeyboardHandler._on_grab_modifiers over the listeners
RECURSIVE grab_modifiers_listeners(_, _, _, _, _)
grab_modifiers_listeners(todo, depressed, latched, locked, acc) ==
    IF todo = {} THEN acc
    ELSE LET cb == CHOOSE f \in todo : TRUE
             r == KeyboardCapture_on_grab_modifiers(acc.cap[cb], depressed,
                                                    latched, locked)
         IN grab_modifiers_listeners(todo \ {cb}, depressed, latched, locked,
                [suppressed |-> or_assign(acc.suppressed, r.ret),
                 ret |-> Put(acc.ret, cb, r.ret),
                 cap |-> [acc.cap EXCEPT ![cb] = r.c]])

\* KeyboardHandler._on_grab_modifiers: the handler and the facades after
\* the event, and what the listeners returned
_on_grab_modifiers(h, cap_, depressed, latched, locked, layout) ==
    LET done == grab_modifiers_listeners(h._event_listeners.grab_modifiers,
                                         depressed, latched, locked,
                                         [suppressed |-> FALSE, ret |-> <<>>,
                                          cap |-> cap_])
    IN [h |-> forward_modifiers(h, done.suppressed, depressed, latched, locked,
                                layout),
        cap |-> done.cap, ret |-> done.ret]

(***************************************************************************)
(* keyboardcontrol.py: emulation                                           *)
(***************************************************************************)
\* KeyComboLayout.parse_key_combo: the steps of a key combo, given as the
\* (key name, pressed) sequence that plover.key_combo.parse_key_combo
\* reads off combo_string, with each name looked up in
\* _combo_from_keyname
parse_key_combo(layout, combo_string) ==
    [i \in 1..Len(combo_string) |->
        [combo |-> layout[combo_string[i].key],
         pressed |-> combo_string[i].pressed]]

\* one iteration of the loop of send_key_combination in which a release
\* leaves mods_state as it is
send_key_combination_step_sticky(timestamp, step, mods_state) ==
    LET after == IF step.combo[2] # 0 /\ step.pressed
                 THEN BitOr(mods_state, step.combo[2]) ELSE mods_state
    IN [requests |->
           <<KeyRequest(timestamp, step.combo[1], IF step.pressed THEN 1 ELSE 0)>>
           \o (IF step.combo[2] # 0
               THEN <<ModifiersRequest(after, 0, 0, 0)>> ELSE <<>>),
        mods_state |-> after]

\* one iteration of the loop of send_key_combination: the requests it
\* makes on the replay keyboard and mods_state after it
send_key_combination_step(timestamp, step, mods_state) ==
    LET after == IF step.combo[2] = 0 THEN mods_state
                 ELSE IF step.pressed THEN BitOr(mods_state, step.combo[2])
                 ELSE BitAndNot(mods_state, step.combo[2])
    IN [requests |->
           <<KeyRequest(timestamp, step.combo[1], IF step.pressed THEN 1 ELSE 0)>>
           \o (IF step.combo[2] # 0
               THEN <<ModifiersRequest(after, 0, 0, 0)>> ELSE <<>>),
        mods_state |-> after]

\* the loop of send_key_combination over steps[i..], entered with
\* mods_state
RECURSIVE send_key_combination_loop(_, _, _, _)
send_key_combination_loop(timestamp, steps, i, mods_state) ==
    IF i > Len(steps)
    THEN [requests |-> <<>>, mods_state |-> mods_state]
    ELSE LET first == send_key_combination_step(timestamp, steps[i], mods_state)
             rest == send_key_combination_loop(timestamp, steps, i + 1,
                                               first.mods_state)
         IN [requests |-> first.requests \o rest.requests,
             mods_state |-> rest.mods_state]

\* KeyboardHandler.send_key_combination, with the connection set up
send_key_combination(h, combo_string, timestamp) ==
    LET steps == parse_key_combo(h._replay_layout[1], combo_string)
        sent == send_key_combination_loop(timestamp, steps, 1, 0)
    IN [h |-> [h EXCEPT !._replay_keyboard = Requests(@, sent.requests)],
        exc |-> IF sent.mods_state # 0
                THEN Some(Exception("AssertionError", "", <<>>)) ELSE None,
        steps |-> steps]

\* KeyboardHandler.send_backspaces
send_backspaces(h, count, timestamp) ==
    [h EXCEPT !._output_keyboard =
        Requests(@, [i \in 1..(2 * count) |->
                        KeyRequest(timestamp, 0, i % 2)])]

\* one iteration of the loop of send_string without the assignment
\* mods_state = mods
send_string_combo_stale(timestamp, combo, mods_state) ==
    [requests |->
        (IF combo[2] # mods_state
         THEN <<ModifiersRequest(combo[2], 0, 0, 0)>> ELSE <<>>)
        \o <<KeyRequest(timestamp, combo[1], 1),
             KeyRequest(timestamp, combo[1], 0)>>,
     mods_state |-> mods_state]

\* one iteration of the loop of send_string: the requests it makes on the
\* output keyboard and mods_state after it
send_string_combo(timestamp, combo, mods_state) ==
    [requests |->
        (IF combo[2] # mods_state
         THEN <<ModifiersRequest(combo[2], 0, 0, 0)>> ELSE <<>>)
        \o <<KeyRequest(timestamp, combo[1], 1),
             KeyRequest(timestamp, combo[1], 0)>>,
     mods_state |-> IF combo[2] # mods_state THEN combo[2] ELSE mods_state]

\* the loop of send_string over combo_list[lo..hi], entered with
\* mods_state: the iterations of the first half of the range, then those
\* of the second half
RECURSIVE send_string_loop(_, _, _, _, _)
send_string_loop(timestamp, combo_list, lo, hi, mods_state) ==
    IF lo > hi
    THEN [requests |-> <<>>, mods_state |-> mods_state]
    ELSE IF lo = hi
    THEN send_string_combo(timestamp, combo_list[lo], mods_state)
    ELSE LET mid == (lo + hi) \div 2
             first == send_string_loop(timestamp, combo_list, lo, mid,
                                       mods_state)
             rest == send_string_loop(timestamp, combo_list, mid + 1, hi,
                                      first.mods_state)
         IN [requests |-> first.requests \o rest.requests,
             mods_state |-> rest.mods_state]

\* send_string that pushes the keymap whether or not string_to_combos
\* reports an update
send_string_always_pushing(h, string, timestamp) ==
    LET r == string_to_combos(h._output_layout[1], string)
        pushed == _update_output_keymap([h EXCEPT !._output_layout = Some(r.layout)])
        sent == send_string_loop(timestamp, r.combo_list, 1,
                                 Len(r.combo_list), 0)
    IN [h |-> [pushed EXCEPT !._output_keyboard =
                  Requests(@, sent.requests \o
                              (IF sent.mods_state # 0
                               THEN <<ModifiersRequest(0, 0, 0, 0)>>
                               ELSE <<>>))],
        keymap_updated |-> r.updated,
        combo_list |-> r.combo_list]

\* KeyboardHandler.send_string, with emulation active
send_string(h, string, timestamp) ==
    LET r == string_to_combos(h._output_layout[1], string)
        laid == [h EXCEPT !._output_layout = Some(r.layout)]
        pushed == IF r.updated THEN _update_output_keymap(laid) ELSE laid
        sent == send_string_loop(timestamp, r.combo_list, 1,
                                 Len(r.combo_list), 0)
    IN [h |-> [pushed EXCEPT !._output_keyboard =
                  Requests(@, sent.requests \o
                              (IF sent.mods_state # 0
                               THEN <<ModifiersRequest(0, 0, 0, 0)>>
                               ELSE <<>>))],
        keymap_updated |-> r.updated,
        combo_list |-> r.combo_list]


(***************************************************************************)
(* The state: the singleton _keyboard, the KeyboardCapture instances, the  *)
(* manager lock, the application thread calling the facades, the dispatch  *)
(* thread, and the compositor.                                             *)
(***************************************************************************)
VARIABLES
    registry,   \* the globals the compositor advertises
    kb,         \* _keyboard = KeyboardHandler()
    cap,        \* the KeyboardCapture instances
    lock,       \* _keyboard._lock, a threading.RLock: owner and depth
    caller,     \* the application thread: where it is in which call
    loop_pc,    \* the thread running _event_loop: where it is
    inbound,    \* events the compositor sent that are not dispatched yet
    result,     \* the last call that returned: what it was, what it raised
    trace,      \* what the last handler or send call did (for a
                \* send_string: also the text and combos of the one before)
    nsend       \* send calls made on the current output keyboard

vars == <<registry, kb, cap, lock, caller, loop_pc, inbound, result, trace, nsend>>

Facades == {1, 2}

\* a call of the application thread
Call(kind, facade, mode, text) ==
    [kind |-> kind, facade |-> facade, mode |-> mode, text |-> text]
NoCall == Call("none", 0, "", <<>>)

Unlocked == [owner |-> "none", count |-> 0]

\* self._lock.acquire() by thread: the lock once it is acquired, or None
\* while another thread holds it (the call blocks)
RLock_acquire(l, thread) ==
    IF l.owner = "none" THEN Some([owner |-> thread, count |-> 1])
    ELSE IF l.owner = thread
    THEN Some([owner |-> thread, count |-> l.count + 1])
    ELSE None

\* self._lock.release() by the thread that holds it
RLock_release(l) ==
    IF l.count > 1 THEN [l EXCEPT !.count = @ - 1] ELSE Unlocked
Idle == [pc |-> "idle", op |-> NoCall, exc |-> None, before |-> <<0, 0>>]

Init ==
    /\ registry \in SUBSET INTERFACES
    /\ kb = KeyboardHandler__init__
    /\ cap = [f \in Facades |-> KeyboardCapture__init__]
    /\ lock = Unlocked
    /\ caller = Idle
    /\ loop_pc = "none"
    /\ inbound = <<>>
    /\ result = [op |-> NoCall, exc |-> None, before |-> <<0, 0>>]
    /\ trace = [kind |-> "none"]
    /\ nsend = 0

(***************************************************************************)
(* The application thread.  A facade call is `with _keyboard:` around the  *)
(* manager calls: __enter__ takes the lock (Enter), the body runs, and     *)
(* __exit__ releases it.  A body that reaches the join of _teardown_base   *)
(* waits there for the dispatch thread (Join).  __exit__'s flush sends     *)
(* the requests already recorded on the virtual keyboards.                 *)
(***************************************************************************)
\* KeyboardHandler.__enter__
Enter(op) ==
    /\ caller.pc = "idle"
    /\ RLock_acquire(lock, "caller") # None
    /\ lock' = RLock_acquire(lock, "caller")[1]
    /\ caller' = [pc |-> "with", op |-> op, exc |-> None,
                  before |-> <<kb._refcount_capture, kb._refcount_emulate>>]
    /\ UNCHANGED <<registry, kb, cap, loop_pc, inbound, result, trace, nsend>>

\* KeyboardCapture.start up to the body of its with statement
Start(f) ==
    /\ kb._refcount_capture < MaxRef
    /\ Enter(Call("start", f, "capture", <<>>))

\* KeyboardCapture.cancel up to the body of its with statement
Cancel(f) ==
    /\ cap[f]._started
    /\ Enter(Call("cancel", f, "capture", <<>>))

\* KeyboardEmulation.__init__ up to the body of its with statement
Emulation ==
    /\ kb._refcount_emulate < MaxRef
    /\ Enter(Call("emulate", 0, "emulate", <<>>))

\* with _keyboard: _keyboard.decref(mode), up to the body
Decref(mode) == Enter(Call("decref", 0, mode, <<>>))

\* the facades once the call caller.op has ended with exc
facades_after(exc) ==
    IF exc # None THEN cap
    ELSE IF caller.op.kind = "start"
    THEN [cap EXCEPT ![caller.op.facade]._started = TRUE]
    ELSE IF caller.op.kind = "cancel"
    THEN [cap EXCEPT ![caller.op.facade]._started = FALSE]
    ELSE cap

\* the rest of the body after the manager call r, and __exit__
Return(h, exc) ==
    /\ kb' = IF exc = None /\ caller.op.kind = "cancel"
             THEN remove_event_listeners(h, caller.op.facade)
             ELSE h
    /\ cap' = facades_after(exc)
    /\ lock' = RLock_release(lock)
    /\ caller' = Idle
    /\ result' = [op |-> caller.op, exc |-> exc, before |-> caller.before]
    /\ inbound' = IF h._display = None THEN <<>> ELSE inbound
    /\ nsend' = IF h._output_keyboard = None THEN 0
                ELSE IF caller.op.kind \in {"send_string", "send_backspaces",
                                          "send_key_combination"}
                THEN nsend + 1
                ELSE nsend

\* the manager call r made in the body: it returns or raises, or waits in
\* self._loop_thread.join()
Called(r) ==
    /\ IF r.join
       THEN /\ kb' = r.h
            /\ caller' = [caller EXCEPT !.pc = "join", !.exc = r.exc]
            /\ UNCHANGED <<cap, lock, result, inbound, nsend>>
       ELSE Return(r.h, r.exc)
    /\ loop_pc' = IF kb._loop_thread = None /\ r.h._loop_thread # None
                  THEN "lock61" ELSE loop_pc
    /\ UNCHANGED <<registry, trace>>

\* the body of KeyboardCapture.start
StartBody(host_keymap) ==
    /\ caller.pc = "with"
    /\ caller.op.kind = "start"
    /\ Called(incref(add_event_listeners(kb, caller.op.facade), "capture",
                     registry, host_keymap))

\* the body of KeyboardCapture.cancel
CancelBody ==
    /\ caller.pc = "with"
    /\ caller.op.kind = "cancel"
    /\ Called(decref(kb, "capture"))

\* the body of KeyboardEmulation.__init__
EmulationBody(host_keymap) ==
    /\ caller.pc = "with"
    /\ caller.op.kind = "emulate"
    /\ Called(incref(kb, "emulate", registry, host_keymap))

\* the body of a direct decref
DecrefBody ==
    /\ caller.pc = "with"
    /\ caller.op.kind = "decref"
    /\ Called(decref(kb, caller.op.mode))

\* self._loop_thread.join() returns: the rest of _teardown_base, of the
\* manager call and of the facade call
Join ==
    /\ caller.pc = "join"
    /\ loop_pc = "done"
    /\ Return(_teardown_base_rest(kb), caller.exc)
    /\ loop_pc' = "none"
    /\ UNCHANGED <<registry, trace>>

\* KeyboardCapture.suppress_keyboard
SuppressKeyboard(f, keys) ==
    /\ caller.pc = "idle"
    /\ cap[f]._suppressed_keys # keys
    /\ cap' = [cap EXCEPT ![f] = suppress_keyboard(@, keys)]
    /\ UNCHANGED <<registry, kb, lock, caller, loop_pc, inbound, result, trace, nsend>>

\* KeyboardEmulation.send_string up to the body of its with statement
SendString(text) ==
    /\ kb._output_layout # None
    /\ nsend < MaxSends
    /\ Enter(Call("send_string", 0, "emulate", text))

\* the body of KeyboardEmulation.send_string at time timestamp
SendStringBody(timestamp) ==
    /\ caller.pc = "with"
    /\ caller.op.kind = "send_string"
    /\ LET r == send_string(kb, caller.op.text, timestamp)
       IN /\ Return(r.h, None)
          /\ trace' = [kind |-> "send_string", text |-> caller.op.text,
                       timestamp |-> timestamp,
                       keymap_updated |-> r.keymap_updated,
                       combo_list |-> r.combo_list,
                       first |-> Len(kb._output_keyboard[1].requests) + 1,
                       previous |-> IF trace.kind = "send_string"
                                    THEN <<[text |-> trace.text,
                                            combo_list |-> trace.combo_list]>>
                                    ELSE <<>>]
    /\ UNCHANGED <<registry, loop_pc>>

(***************************************************************************)
(* The compositor and the dispatch thread (_event_loop).                   *)
(***************************************************************************)
KeymapEvent(fmt, keymap) == [kind |-> "keymap", fmt |-> fmt, keymap |-> keymap]
GrabKeyEvent(time, key, state) ==
    [kind |-> "grab_key", time |-> time, key |-> key, state |-> state]
GrabModifiersEvent(depressed, latched, locked, group) ==
    [kind |-> "grab_modifiers", depressed |-> depressed, latched |-> latched,
     locked |-> locked, group |-> group]

\* the compositor sends an event to an object of the connection (one event
\* is in flight at a time)
CompositorSend(ev) ==
    /\ kb._display # None
    /\ inbound = <<>>
    /\ IF ev.kind = "keymap" THEN kb._keyboard # None
       ELSE kb._grabbed_keyboard # None
    /\ kb._replay_keyboard # None
    /\ Len(kb._replay_keyboard[1].requests) < MaxReplayLog
    /\ inbound' = Append(inbound, ev)
    /\ UNCHANGED <<registry, kb, cap, lock, caller, loop_pc, result, trace, nsend>>

\* _event_loop, line 61-62: with self._lock: readfds = ...
LoopReadFds ==
    /\ loop_pc = "lock61"
    /\ RLock_acquire(lock, "loop") # None
    /\ loop_pc' = "select"
    /\ UNCHANGED <<registry, kb, cap, lock, caller, inbound, result, trace, nsend>>

\* select.select returns: the pipe is readable, or only the display is
LoopSelect ==
    /\ loop_pc = "select"
    /\ kb._pipe = Some("quit") \/ inbound # <<>>
    /\ loop_pc' = IF kb._pipe = Some("quit") THEN "done" ELSE "lock73"
    /\ UNCHANGED <<registry, kb, cap, lock, caller, inbound, result, trace, nsend>>

\* _event_loop going on to dispatch without taking the lock at line 73
LoopLock_unlocked ==
    /\ loop_pc = "lock73"
    /\ loop_pc' = "dispatch"
    /\ UNCHANGED <<registry, kb, cap, lock, caller, inbound, result, trace, nsend>>

\* _event_loop, line 73: with self._lock
LoopLock ==
    /\ loop_pc = "lock73"
    /\ RLock_acquire(lock, "loop") # None
    /\ lock' = RLock_acquire(lock, "loop")[1]
    /\ loop_pc' = "dispatch"
    /\ UNCHANGED <<registry, kb, cap, caller, inbound, result, trace, nsend>>

\* self._display.dispatch: the handler of the next pending event (an
\* event for an object that was destroyed meanwhile is dropped)
LoopDispatch ==
    /\ loop_pc = "dispatch"
    /\ inbound # <<>>
    /\ LET ev == Head(inbound)
       IN IF ev.kind = "keymap" /\ kb._keyboard # None
          THEN /\ kb' = _on_keymap(kb, ev.fmt, ev.keymap)
               /\ cap' = cap
               /\ trace' = [kind |-> "keymap", ev |-> ev,
                            listeners |-> {}, ret |-> <<>>, calls |-> <<>>]
          ELSE IF ev.kind = "grab_key" /\ kb._grabbed_keyboard # None
          THEN LET r == _on_grab_key(kb, cap, ev.time, ev.key, ev.state)
               IN /\ kb' = r.h
                  /\ cap' = cap
                  /\ trace' = [kind |-> "grab_key", ev |-> ev,
                               listeners |-> kb._event_listeners.grab_key,
                               ret |-> r.ret, calls |-> r.calls]
          ELSE IF ev.kind = "grab_modifiers" /\ kb._grabbed_keyboard # None
          THEN LET r == _on_grab_modifiers(kb, cap, ev.depressed, ev.latched,
                                           ev.locked, ev.group)
               IN /\ kb' = r.h
                  /\ cap' = r.cap
                  /\ trace' = [kind |-> "grab_modifiers", ev |-> ev,
                               listeners |-> kb._event_listeners.grab_modifiers,
                               ret |-> r.ret, calls |-> <<>>]
          ELSE /\ UNCHANGED <<kb, cap>>
               /\ trace' = [kind |-> "dropped", ev |-> ev,
                            listeners |-> {}, ret |-> <<>>, calls |-> <<>>]
    /\ inbound' = Tail(inbound)
    /\ UNCHANGED <<registry, lock, caller, loop_pc, result, nsend>>

\* self._display.flush() and the end of the with statement of line 73
LoopFlush ==
    /\ loop_pc = "dispatch"
    /\ inbound = <<>>
    /\ lock.count = 1
    /\ lock' = RLock_release(lock)
    /\ loop_pc' = "select"
    /\ UNCHANGED <<registry, kb, cap, caller, inbound, result, trace, nsend>>

(***************************************************************************)
(* The inputs of the model                                                 *)
(***************************************************************************)
\* host keymaps: two layouts, one of them also with a trailing NUL, and a
\* keymap generated by to_xkb_def
HostKeymap(n, nul) ==
    [minimum |-> XKB_KEYCODE_OFFSET, maximum |-> XKB_KEYCODE_MAX,
     mods |-> CompleteMods,
     keys |-> <<[name |-> KeyName("AC", 1), code |-> 38,
                 syms |-> IF n = 1 THEN <<(<<97>>), (<<65>>)>>
                          ELSE <<(<<115>>), (<<83>>)>>],
                [name |-> KeyName("LFSH", 0), code |-> 50,
                 syms |-> <<(<<65505>>)>>]>>,
     nul |-> nul]

GeneratedKeymap ==
    [minimum |-> XKB_KEYCODE_OFFSET, maximum |-> XKB_KEYCODE_MAX,
     mods |-> CompleteMods,
     keys |-> <<[name |-> PLOVER_TAG, code |-> XKB_KEYCODE_OFFSET,
                 syms |-> <<(<<XK_BackSpace>>)>>],
                [name |-> KeyName("C", 1), code |-> 9,
                 syms |-> <<(<<97>>)>>]>>,
     nul |-> FALSE]

\* the keymap the seat keyboard announces when it is created
InitialKeymaps == {HostKeymap(1, FALSE)}

\* the events of the lifecycle specification: a keymap announcement that
\* _on_keymap discards
LifecycleEvents == {KeymapEvent(1, GeneratedKeymap)}

(***************************************************************************)
(* Spec: the lifecycle of the connection under the facades' calls          *)
(***************************************************************************)
Next ==
    \/ \E f \in Facades : Start(f)
    \/ \E f \in Facades : Cancel(f)
    \/ Emulation
    \/ \E mode \in {"capture", "emulate"} : Decref(mode)
    \/ \E host_keymap \in InitialKeymaps : StartBody(host_keymap)
    \/ CancelBody
    \/ \E host_keymap \in InitialKeymaps : EmulationBody(host_keymap)
    \/ DecrefBody
    \/ Join
    \/ \E ev \in LifecycleEvents : CompositorSend(ev)
    \/ LoopReadFds
    \/ LoopSelect
    \/ LoopLock
    \/ LoopDispatch
    \/ LoopFlush

Spec == Init /\ [][Next]_vars

(***************************************************************************)
(* Claims about the lifecycle (checked under Spec)                         *)
(***************************************************************************)
Total == kb._refcount_capture + kb._refcount_emulate
ConnectionExists ==
    /\ kb._display # None
    /\ kb._interface # None
    /\ kb._loop_thread # None
    /\ loop_pc \notin {"none", "done"}
ConnectionAbsent ==
    /\ kb._display = None
    /\ kb._interface = None
    /\ kb._loop_thread = None
    /\ kb._pipe = None
    /\ kb._keyboard = None
    /\ kb._replay_keyboard = None
    /\ loop_pc = "none"

\* C1: between calls, after any sequence of activate/deactivate calls
\* (failed ones and deactivations at count 0 included), neither count is
\* negative and the shared connection (display, bound interfaces, dispatch
\* thread) exists if and only if the two counts sum to more than 0.
C1_ConnectionIffReferenced ==
    caller.pc = "idle" =>
        /\ kb._refcount_capture >= 0
        /\ kb._refcount_emulate >= 0
        /\ IF Total > 0 THEN ConnectionExists ELSE ConnectionAbsent

\* a deactivation at count 0 was refused while the other capability keeps
\* the connection alive
C1_Witness ==
    /\ caller.pc = "idle"
    /\ result.op.kind = "decref"
    /\ result.op.mode = "capture"
    /\ result.exc # None
    /\ kb._refcount_capture = 0
    /\ kb._refcount_emulate > 0
    /\ ConnectionExists

\* C2: a deactivation that brings the combined count to 0 while the caller
\* holds the manager lock completes: whenever it waits in join, the
\* dispatch thread is able to see the quit signal and end (it is in, or
\* past, the select, and not waiting for the lock the caller holds).
C2_DeactivateCompletes ==
    (caller.pc = "join" /\ caller.op.kind \in {"cancel", "decref"}) =>
        loop_pc \in {"select", "done"}

\* C3: an activation that fails raises to its caller (its rollback never
\* waits for a dispatch thread that waits for the caller's lock), and once
\* it has raised, the capability's count is what it was before the call,
\* none of its objects exists and, no other capability being active, the
\* connection is torn down.
C3_FailedActivateRollsBack ==
    /\ (caller.pc = "join" /\ caller.exc # None) => loop_pc \in {"select", "done"}
    /\ (caller.pc = "idle" /\ result.op.kind \in {"start", "emulate"}
            /\ result.exc # None) =>
          /\ refcount_of(kb, result.op.mode)
                = result.before[IF result.op.mode = "capture" THEN 1 ELSE 2]
          /\ result.op.mode = "capture" =>
                kb._input_method = None /\ kb._grabbed_keyboard = None
          /\ result.op.mode = "emulate" =>
                kb._output_keyboard = None /\ kb._output_layout = None
          /\ Total = 0 => ConnectionAbsent

\* the interfaces a capability requires, in the order _ensure_interfaces
\* is given them
Required(mode) ==
    IF mode = "capture" THEN <<"seat", "input_method", "virtual_keyboard">>
    ELSE <<"seat", "virtual_keyboard">>

\* C4: activating a capability on a compositor that lacks some of the
\* interfaces it requires fails with the configuration error that names
\* exactly the missing ones, whichever they are.
C4_ConfigurationErrorNamesMissing ==
    (/\ caller.pc = "idle"
     /\ result.op.kind \in {"start", "emulate"}
     /\ \E i \in 1..Len(Required(result.op.mode)) :
            Required(result.op.mode)[i] \notin registry) =>
        result.exc = Some(Exception("RuntimeError", result.op.mode,
                              SelectSeq(Required(result.op.mode),
                                        LAMBDA name : name \notin registry)))

\* C5: between calls, the capture objects (input method, keyboard grab)
\* exist iff the capture count is > 0, and the emulate objects (output
\* keyboard, output layout) exist iff the emulate count is > 0.
C5_ObjectsIffCounted ==
    caller.pc = "idle" =>
        /\ IF kb._refcount_capture > 0
           THEN kb._input_method # None /\ kb._grabbed_keyboard # None
           ELSE kb._input_method = None /\ kb._grabbed_keyboard = None
        /\ IF kb._refcount_emulate > 0
           THEN kb._output_keyboard # None /\ kb._output_layout # None
           ELSE kb._output_keyboard = None /\ kb._output_layout = None

\* a capture activation failed (no input-method) while emulation is active
C5_Witness ==
    /\ caller.pc = "idle"
    /\ result.op.kind = "start"
    /\ result.exc # None
    /\ kb._refcount_capture = 0
    /\ kb._refcount_emulate > 0
    /\ kb._output_keyboard # None

(***************************************************************************)
(* SpecCapture: capture is active and the compositor sends grabbed key     *)
(* and modifiers events and keymap announcements                           *)
(***************************************************************************)
\* the sets suppress_keyboard is called with
SuppressedKeys == {{}, {"a"}}

\* grabbed key events (time, key, state): the wire keycode 30 is
\* KEYCODE_TO_KEY's "a", 31 its "s", and 1 is not in KEYCODE_TO_KEY
CaptureKeys == {<<1000, 30, 1>>, <<1001, 30, 0>>, <<1002, 31, 1>>, <<1003, 1, 1>>}

\* grabbed modifiers events (depressed, latched, locked): none, Shift
\* held, NumLock locked
CaptureModifiers == {<<0, 0, 0>>, <<1, 0, 0>>, <<0, 0, 16>>}

CaptureEvents ==
    {GrabKeyEvent(k[1], k[2], k[3]) : k \in CaptureKeys}
    \cup {GrabModifiersEvent(m[1], m[2], m[3], 0) : m \in CaptureModifiers}
    \cup {KeymapEvent(1, keymap) :
            keymap \in {HostKeymap(1, FALSE), HostKeymap(2, FALSE), GeneratedKeymap}}

NextCapture ==
    \/ \E f \in Facades : Start(f)
    \/ \E host_keymap \in InitialKeymaps : StartBody(host_keymap)
    \/ \E f \in Facades, keys \in SuppressedKeys : SuppressKeyboard(f, keys)
    \/ \E ev \in CaptureEvents : CompositorSend(ev)
    \/ LoopReadFds
    \/ LoopSelect
    \/ LoopLock
    \/ LoopDispatch
    \/ LoopFlush

InitCapture == Init /\ registry = INTERFACES

SpecCapture == InitCapture /\ [][NextCapture]_vars

(***************************************************************************)
(* Claims about capture (checked under SpecCapture)                        *)
(***************************************************************************)
\* the requests the replay keyboard has received
Replayed(h) ==
    IF h._replay_keyboard = None THEN <<>> ELSE h._replay_keyboard[1].requests

\* this step is the dispatch of the pending event, of the given kind, to
\* its handler
Dispatches(kind) ==
    /\ loop_pc = "dispatch"
    /\ inbound # <<>>
    /\ inbound' = Tail(inbound)
    /\ Head(inbound).kind = kind
    /\ kb._keyboard # None
    /\ kind # "keymap" => kb._grabbed_keyboard # None

\* the request that forwards a grabbed event unchanged
Forwarded(ev) ==
    IF ev.kind = "grab_key" THEN KeyRequest(ev.time, ev.key, ev.state)
    ELSE ModifiersRequest(ev.depressed, ev.latched, ev.locked, ev.group)

Bit(n, i) == (n \div (2 ^ i)) % 2

\* a modifier other than NumLock (0x10) is depressed, latched or locked
ModifierActive(ev) ==
    \E i \in (0..7) \ {4} :
        Bit(ev.depressed, i) + Bit(ev.latched, i) + Bit(ev.locked, i) > 0

\* the key of KEYCODE_TO_KEY a grabbed key event is about, if any
KeyOf(ev) ==
    IF ev.key + XKB_KEYCODE_OFFSET \in DOMAIN KEYCODE_TO_KEY
    THEN Some(KEYCODE_TO_KEY[ev.key + XKB_KEYCODE_OFFSET]) ELSE None

\* C7 as the specification states it: every press of a key in a
\* listening facade's suppression set makes its listener return true and
\* is not forwarded, whatever modifiers events preceded it; a press of a
\* key in no suppression set is forwarded unchanged.
C7_SuppressedWhateverModifiers ==
    [][(Dispatches("grab_key") /\ Head(inbound).state = 1
            /\ KeyOf(Head(inbound)) # None) =>
          LET ev == Head(inbound)
              key == KeyOf(ev)[1]
              listeners == kb._event_listeners.grab_key
          IN /\ \A f \in listeners :
                   key \in cap[f]._suppressed_keys =>
                       trace'.ret[f] /\ Replayed(kb') = Replayed(kb)
             /\ (\A f \in listeners : key \notin cap[f]._suppressed_keys) =>
                   Replayed(kb') = Append(Replayed(kb), Forwarded(ev))]_vars

\* C7: a facade's modifier state is 0 exactly when the last modifiers
\* event it listened to has no modifier other than NumLock active; a
\* press of a key X makes a facade's listener return true if and only if
\* X is in the facade's suppression set and the facade's modifier state
\* is 0, and the press is forwarded unchanged if and only if no listener
\* returned true.  So a press of X with, say, Shift held is forwarded,
\* and a press of a key Y in no suppression set always is.
C7_SuppressedUnlessModifier ==
    [][/\ Dispatches("grab_modifiers") =>
            \A f \in kb._event_listeners.grab_modifiers :
                (cap'[f]._mod_state = 0) <=> ~ModifierActive(Head(inbound))
       /\ (Dispatches("grab_key") /\ Head(inbound).state = 1
              /\ KeyOf(Head(inbound)) # None) =>
            LET ev == Head(inbound)
                key == KeyOf(ev)[1]
                listeners == kb._event_listeners.grab_key
                suppresses(f) == key \in cap[f]._suppressed_keys
                                    /\ cap[f]._mod_state = 0
            IN /\ \A f \in listeners : trace'.ret[f] <=> suppresses(f)
               /\ Replayed(kb') =
                    IF \E f \in listeners : suppresses(f)
                    THEN Replayed(kb)
                    ELSE Append(Replayed(kb), Forwarded(ev))]_vars

\* a press of the suppressed key "a" arrived while a modifier was held:
\* the listener returned false and the press was forwarded
C7_Witness ==
    /\ trace.kind = "grab_key"
    /\ trace.ev.state = 1
    /\ KeyOf(trace.ev) = Some("a")
    /\ trace.listeners # {}
    /\ \A f \in trace.listeners :
          /\ "a" \in cap[f]._suppressed_keys
          /\ cap[f]._mod_state # 0
          /\ ~trace.ret[f]
    /\ Replayed(kb)[Len(Replayed(kb))] = Forwarded(trace.ev)

\* the keymap's buffer holds the tag of the keymaps to_xkb_def generates
CarriesTag(keymap) ==
    PLOVER_TAG \in {keymap.keys[i].name : i \in 1..Len(keymap.keys)}

\* C8: a keymap event whose buffer carries the tag, or equals the
\* snapshot, changes neither the snapshot nor the combo table and forwards
\* nothing; any other keymap event replaces the snapshot by its keymap,
\* rebuilds the combo table from that keymap and forwards the keymap; and
\* no other step of capture gives the snapshot a new value.
C8_KeymapReplacedOnlyByForeign ==
    [][/\ Dispatches("keymap") =>
            LET ev == Head(inbound)
            IN IF CarriesTag(ev.keymap) \/ kb._keymap = Some(ev.keymap)
               THEN /\ kb'._keymap = kb._keymap
                    /\ kb'._replay_layout = kb._replay_layout
                    /\ Replayed(kb') = Replayed(kb)
               ELSE /\ kb'._keymap = Some(ev.keymap)
                    /\ kb'._replay_layout = Some(KeyComboLayout(ev.keymap))
                    /\ Replayed(kb') = Append(Replayed(kb),
                                              KeymapRequest(ev.fmt, ev.keymap))
       /\ (kb'._keymap # kb._keymap /\ kb'._keymap # None) =>
            /\ ~CarriesTag(kb'._keymap[1])
            /\ kb'._replay_layout = Some(KeyComboLayout(kb'._keymap[1]))
            /\ Replayed(kb')[Len(Replayed(kb'))].request = "keymap"
            /\ Replayed(kb')[Len(Replayed(kb'))].keymap = kb'._keymap[1]]_vars

\* the host changed its layout: the snapshot, the combo table and the
\* replay keyboard follow
C8_Witness ==
    /\ trace.kind = "keymap"
    /\ ~CarriesTag(trace.ev.keymap)
    /\ kb._keymap = Some(trace.ev.keymap)
    /\ kb._keymap # Some(HostKeymap(1, FALSE))
    /\ Len(Replayed(kb)) = 2
    /\ Replayed(kb)[2] = KeymapRequest(trace.ev.fmt, trace.ev.keymap)

(***************************************************************************)
(* SpecEmulate: emulation is active and the application sends strings      *)
(***************************************************************************)
\* "Hi!"
Hi == <<72, 105, 33>>

\* a text of DynamicLen characters that are not in the static layout: the
\* extra slots of level 0 are used up and the last ones get level 1
DynamicLen == 60
Dynamic == [i \in 1..DynamicLen |-> 999 + i]

\* static and dynamic characters mixed
Mixed == <<1058, 72, 1059, 1059, 1000, 105, 1057>>

Texts == {Hi, Dynamic, Mixed, <<>>}

\* the values time.thread_time_ns() // 10 ** 3 takes
Timestamps == {1, 2}

\* the numbers of backspaces sent
BackspaceCounts == {1, 2}

\* KeyboardEmulation.send_backspaces up to the body of its with statement
SendBackspaces(count) ==
    /\ kb._output_keyboard # None
    /\ nsend < MaxSends
    /\ Enter(Call("send_backspaces", 0, "emulate", <<count>>))

\* the body of KeyboardEmulation.send_backspaces at time timestamp
SendBackspacesBody(timestamp) ==
    /\ caller.pc = "with"
    /\ caller.op.kind = "send_backspaces"
    /\ Return(send_backspaces(kb, caller.op.text[1], timestamp), None)
    /\ trace' = [kind |-> "send_backspaces", count |-> caller.op.text[1],
                 timestamp |-> timestamp,
                 first |-> Len(kb._output_keyboard[1].requests) + 1]
    /\ UNCHANGED <<registry, loop_pc>>

NextEmulate ==
    \/ Emulation
    \/ \E host_keymap \in InitialKeymaps : EmulationBody(host_keymap)
    \/ \E text \in Texts : SendString(text)
    \/ \E timestamp \in Timestamps : SendStringBody(timestamp)
    \/ \E count \in BackspaceCounts : SendBackspaces(count)
    \/ \E timestamp \in Timestamps : SendBackspacesBody(timestamp)
    \/ LoopReadFds

InitEmulate == Init /\ {"seat", "virtual_keyboard"} \subseteq registry

SpecEmulate == InitEmulate /\ [][NextEmulate]_vars

(***************************************************************************)
(* Claims about emulation (checked under SpecEmulate)                      *)
(***************************************************************************)
\* the requests the output keyboard has received
Emitted(h) ==
    IF h._output_keyboard = None THEN <<>> ELSE h._output_keyboard[1].requests

\* the events for the i-th character of a text with the given combos
EventsOf(combos, i, timestamp) ==
    (IF combos[i][2] # (IF i = 1 THEN 0 ELSE combos[i - 1][2])
     THEN <<ModifiersRequest(combos[i][2], 0, 0, 0)>> ELSE <<>>)
    \o <<KeyRequest(timestamp, combos[i][1], 1),
         KeyRequest(timestamp, combos[i][1], 0)>>

\* the events for the characters lo..hi
RECURSIVE EventsBetween(_, _, _, _)
EventsBetween(combos, lo, hi, timestamp) ==
    IF lo > hi THEN <<>>
    ELSE IF lo = hi THEN EventsOf(combos, lo, timestamp)
    ELSE EventsBetween(combos, lo, (lo + hi) \div 2, timestamp)
            \o EventsBetween(combos, (lo + hi) \div 2 + 1, hi, timestamp)

\* the all-clear event after the last character
AllClear(combos) ==
    IF combos # <<>> /\ combos[Len(combos)][2] # 0
    THEN <<ModifiersRequest(0, 0, 0, 0)>> ELSE <<>>

\* C9: what send_string(text) adds to the output keyboard is, keymap
\* pushes aside: for each character of text in order, a modifiers event
\* iff the character's modifiers differ from the previous character's
\* (0 before the first), then the press and the release of its keycode;
\* and at the end one all-clear modifiers event iff the last character's
\* modifiers are not 0.
C9_SendStringEvents ==
    [][(caller.pc = "with" /\ caller.op.kind = "send_string"
            /\ caller'.pc = "idle") =>
          LET old == Emitted(kb)
              all == Emitted(kb')
              added == SubSeq(all, Len(old) + 1, Len(all))
              events == SelectSeq(added, LAMBDA r : r.request # "keymap")
              combos == string_to_combos(kb._output_layout[1],
                                         caller.op.text).combo_list
          IN /\ SubSeq(all, 1, Len(old)) = old
             /\ Len(combos) = Len(caller.op.text)
             /\ events = EventsBetween(combos, 1, Len(combos), trace'.timestamp)
                            \o AllClear(combos)]_vars

\* a string was sent whose characters switch the modifiers on, off and on
\* again, and it ended with the all-clear event
C9_Witness ==
    /\ trace.kind = "send_string"
    /\ \E i, j \in 1..Len(trace.combo_list) :
          /\ i + 1 < j
          /\ trace.combo_list[i][2] # 0
          /\ trace.combo_list[i + 1][2] = 0
          /\ trace.combo_list[j][2] # 0
    /\ Emitted(kb)[Len(Emitted(kb))] = ModifiersRequest(0, 0, 0, 0)

\* emulation alone is active and its first send_string, of "Hi!", returned
HiSent ==
    /\ caller.pc = "idle"
    /\ kb._refcount_capture = 0
    /\ kb._output_keyboard # None
    /\ nsend = 1
    /\ trace.kind = "send_string"
    /\ trace.text = Hi

\* the positions of the requests of a kind
Positions(requests, kind) ==
    {i \in 1..Len(requests) : requests[i].request = kind}

\* C10 as the specification states it: the output keyboard has received
\* one keymap push, three press/release pairs, a modifiers event that sets
\* a modifier right before the press of 'H', and an all-clear modifiers
\* event at the end.
C10_HiWithShift ==
    HiSent =>
        LET out == Emitted(kb)
        IN /\ Cardinality(Positions(out, "keymap")) = 1
           /\ Cardinality(Positions(out, "key")) = 6
           /\ \E i \in Positions(out, "modifiers") :
                 /\ out[i].depressed # 0
                 /\ i + 1 \in Positions(out, "key")
                 /\ out[i + 1] = KeyRequest(trace.timestamp,
                                            trace.combo_list[1][1], 1)
           /\ out[Len(out)] = ModifiersRequest(0, 0, 0, 0)

\* C10: the output keyboard has received exactly the keymap push of
\* _setup_emulate and then three press/release pairs, of the keycodes 41,
\* 74 and 2 that the static layout gives 'H', 'i' and '!', all three at
\* level 0 (modifiers 0); it has received no modifiers event at all.
C10_HiWithoutModifiers ==
    HiSent =>
        LET out == Emitted(kb)
            t == trace.timestamp
        IN /\ trace.combo_list = <<(<<41, 0>>), (<<74, 0>>), (<<2, 0>>)>>
           /\ out = <<KeymapRequest(1, to_xkb_def(StringOutputLayout)),
                      KeyRequest(t, 41, 1), KeyRequest(t, 41, 0),
                      KeyRequest(t, 74, 1), KeyRequest(t, 74, 0),
                      KeyRequest(t, 2, 1), KeyRequest(t, 2, 0)>>
           /\ Positions(out, "modifiers") = {}

\* "Hi!" was sent, without a keymap push of its own, and the output
\* keyboard got its seven requests
C10_Witness ==
    /\ HiSent
    /\ ~trace.keymap_updated
    /\ Len(Emitted(kb)) = 7
    /\ Cardinality(Positions(Emitted(kb), "key")) = 6

(***************************************************************************)
(* SpecCombo: key combos replayed on the replay keyboard                   *)
(***************************************************************************)
\* KeyboardEmulation.send_key_combination up to the body of its with
\* statement
SendKeyCombination(combo_string) ==
    /\ kb._output_keyboard # None
    /\ kb._replay_layout # None
    /\ nsend < MaxSends
    /\ Enter(Call("send_key_combination", 0, "emulate", combo_string))

\* the body of KeyboardEmulation.send_key_combination at time timestamp
SendKeyCombinationBody(timestamp) ==
    /\ caller.pc = "with"
    /\ caller.op.kind = "send_key_combination"
    /\ LET r == send_key_combination(kb, caller.op.text, timestamp)
       IN /\ Return(r.h, r.exc)
          /\ trace' = [kind |-> "send_key_combination", steps |-> r.steps,
                       timestamp |-> timestamp,
                       first |-> Len(kb._replay_keyboard[1].requests) + 1]
    /\ UNCHANGED <<registry, loop_pc>>

\* a key going down or up in a key combo
Down(key) == [key |-> key, pressed |-> TRUE]
Up(key) == [key |-> key, pressed |-> FALSE]

\* key combos as their steps: a, shift_l(a), shift_l(shift(a)) with the
\* inner shift released first, the empty combo, and two step lists that
\* are not balanced: one leaves shift_l down, one releases it only
KeyCombos ==
    {<<Down("a"), Up("a")>>,
     <<Down("shift_l"), Down("a"), Up("a"), Up("shift_l")>>,
     <<Down("shift_l"), Down("shift"), Up("shift"), Down("a"), Up("a"),
       Up("shift_l")>>,
     <<>>,
     <<Down("shift_l"), Down("a"), Up("a")>>,
     <<Up("shift_l")>>}

NextCombo ==
    \/ Emulation
    \/ \E host_keymap \in InitialKeymaps : EmulationBody(host_keymap)
    \/ \E combo_string \in KeyCombos : SendKeyCombination(combo_string)
    \/ \E timestamp \in Timestamps : SendKeyCombinationBody(timestamp)
    \/ LoopReadFds

SpecCombo == InitEmulate /\ [][NextCombo]_vars

(***************************************************************************)
(* Claims about key combos (checked under SpecCombo)                       *)
(***************************************************************************)
\* the modifier bits held after the first i steps: those whose latest
\* step was a press
HeldAfter(steps, i) ==
    {b \in 0..7 :
        \E j \in 1..i :
            /\ Bit(steps[j].combo[2], b) = 1
            /\ steps[j].pressed
            /\ \A k \in (j + 1)..i : Bit(steps[k].combo[2], b) = 0}

\* the mask of the bits held after the first i steps
MaskAfter(steps, i) ==
    CHOOSE m \in 0..255 : \A b \in 0..7 : Bit(m, b) = 1 <=> b \in HeldAfter(steps, i)

\* the events of the steps i.. of a key combo: the key event of each
\* step, followed by a modifiers event when the step's key is a modifier
RECURSIVE StepEvents(_, _, _)
StepEvents(steps, i, timestamp) ==
    IF i > Len(steps) THEN <<>>
    ELSE <<KeyRequest(timestamp, steps[i].combo[1],
                      IF steps[i].pressed THEN 1 ELSE 0)>>
         \o (IF steps[i].combo[2] # 0
             THEN <<ModifiersRequest(MaskAfter(steps, i), 0, 0, 0)>> ELSE <<>>)
         \o StepEvents(steps, i + 1, timestamp)

\* C11: send_key_combination adds to the replay keyboard, for each step
\* of the combo in order, the step's key event and, when the step's key is
\* a modifier, a modifiers event with the running mask (a bit is set by a
\* press and cleared by a release); it returns normally iff the mask is
\* zero after the last step and raises AssertionError otherwise; when it
\* returns normally the last modifiers event it sent, if any, is all
\* clear.
C11_KeyCombinationEvents ==
    [][(caller.pc = "with" /\ caller.op.kind = "send_key_combination"
            /\ caller'.pc = "idle") =>
          LET old == Replayed(kb)
              all == Replayed(kb')
              added == SubSeq(all, Len(old) + 1, Len(all))
              steps == trace'.steps
              masks == SelectSeq(added, LAMBDA r : r.request = "modifiers")
          IN /\ SubSeq(all, 1, Len(old)) = old
             /\ Len(steps) = Len(caller.op.text)
             /\ \A i \in 1..Len(steps) :
                   /\ steps[i].combo = kb._replay_layout[1][caller.op.text[i].key]
                   /\ steps[i].pressed = caller.op.text[i].pressed
             /\ added = StepEvents(steps, 1, trace'.timestamp)
             /\ result'.exc = None <=> HeldAfter(steps, Len(steps)) = {}
             /\ result'.exc # None => result'.exc[1].type = "AssertionError"
             /\ (result'.exc = None /\ masks # <<>>) =>
                   masks[Len(masks)] = ModifiersRequest(0, 0, 0, 0)
             /\ Emitted(kb') = Emitted(kb)]_vars

\* the second combo sent pressed two modifier names around a key and
\* returned normally, after a modifiers event with the shift bit
C11_Witness ==
    /\ trace.kind = "send_key_combination"
    /\ result.op.kind = "send_key_combination"
    /\ result.exc = None
    /\ Len(trace.steps) = 6
    /\ Replayed(kb)[Len(Replayed(kb))] = ModifiersRequest(0, 0, 0, 0)
    /\ \E i \in 1..Len(Replayed(kb)) :
          Replayed(kb)[i] = ModifiersRequest(1, 0, 0, 0)
    /\ nsend = 2

(***************************************************************************)
(* SpecLayout: texts that use up the extra mappings of the output layout   *)
(***************************************************************************)
\* the number of extra mappings of the layout the program constructs
Pool == Len(StringOutputLayout._extra_mappings)

\* the i-th of a run of characters that are not in the static table
Rare(i) == 999 + i

\* as many distinct rare characters as there are extra mappings
Filling == [i \in 1..Pool |-> Rare(i)]

\* one rare character more than there are extra mappings, with the first
\* one looked up again before the last one
Overflowing == Filling \o <<Rare(1), Rare(Pool + 1)>>

\* the first rare character alone, and followed by a new one
Again == <<Rare(1)>>
ResidentThenNew == <<Rare(1), Rare(Pool + 1)>>

LayoutTexts == {Filling, Overflowing, Again, ResidentThenNew, Hi}

\* the time of the calls (the layout does not depend on it)
LayoutTimestamps == {1}

\* one KeyboardEmulation is constructed, and sends its texts
NextLayout ==
    \/ kb._refcount_emulate = 0 /\ Emulation
    \/ \E host_keymap \in InitialKeymaps : EmulationBody(host_keymap)
    \/ \E text \in LayoutTexts : SendString(text)
    \/ \E timestamp \in LayoutTimestamps : SendStringBody(timestamp)
    \/ LoopReadFds

SpecLayout == InitEmulate /\ [][NextLayout]_vars

(***************************************************************************)
(* Claims about the output layout (checked under SpecLayout)               *)
(***************************************************************************)
\* the character table of the output layout
Table == kb._output_layout[1]._char_to_combo

\* C12: extra slots are claimed in rotation, whatever is looked up in
\* between.  After a call that binds Pool + 1 distinct rare characters,
\* looking the first one up again before the last, the first one is no
\* longer bound while all the others still are, each to the slot the call
\* reported for it.  Requesting the first one again then reports an update
\* and binds it to a slot that is not its original one but that of the
\* second-bound character, which is evicted; the rest stays bound.
C12_FifoEviction ==
    (trace.kind = "send_string" /\ caller.pc = "idle") =>
       /\ (nsend = 1 /\ trace.text = Overflowing) =>
             /\ trace.keymap_updated
             /\ trace.combo_list[Pool + 1] = trace.combo_list[1]
             /\ Rare(1) \notin DOMAIN Table
             /\ \A i \in 2..Pool : /\ Rare(i) \in DOMAIN Table
                                   /\ Table[Rare(i)] = trace.combo_list[i]
             /\ Rare(Pool + 1) \in DOMAIN Table
             /\ Table[Rare(Pool + 1)] = trace.combo_list[Pool + 2]
             /\ Table[Rare(Pool + 1)] = trace.combo_list[1]
       /\ (nsend = 2 /\ trace.text = Again /\ trace.previous # <<>>
              /\ trace.previous[1].text = Overflowing) =>
             LET first == trace.previous[1].combo_list
             IN /\ trace.keymap_updated
                /\ trace.combo_list[1] # first[1]
                /\ trace.combo_list[1] = first[2]
                /\ Table[Rare(1)] = first[2]
                /\ Rare(2) \notin DOMAIN Table
                /\ \A i \in 3..Pool : /\ Rare(i) \in DOMAIN Table
                                      /\ Table[Rare(i)] = first[i]
                /\ Table[Rare(Pool + 1)] = first[1]

\* the first rare character was requested again after Pool + 1 of them had
\* been bound
C12_Witness ==
    /\ trace.kind = "send_string"
    /\ caller.pc = "idle"
    /\ nsend = 2
    /\ trace.text = Again
    /\ trace.previous # <<>>
    /\ trace.previous[1].text = Overflowing
    /\ Rare(1) \in DOMAIN Table

\* the characters the layout binds at construction
Static == DOMAIN StringOutputLayout._char_to_combo

\* C13: whatever was sent before, a send_string whose characters are all
\* bound at construction reports no update, pushes no keymap, uses for
\* each character the combo it got at construction, and leaves the layout
\* as it was.
C13_StaticTextUntouched ==
    [][(caller.pc = "with" /\ caller.op.kind = "send_string"
            /\ caller'.pc = "idle"
            /\ \A i \in 1..Len(caller.op.text) : caller.op.text[i] \in Static) =>
          /\ ~trace'.keymap_updated
          /\ trace'.combo_list =
                [i \in 1..Len(caller.op.text) |->
                    StringOutputLayout._char_to_combo[caller.op.text[i]]]
          /\ kb'._output_layout = kb._output_layout
          /\ \A i \in (Len(Emitted(kb)) + 1)..Len(Emitted(kb')) :
                Emitted(kb')[i].request # "keymap"]_vars

\* a text of static characters was sent after a call that had used up
\* the extra mappings and evicted a character
C13_Witness ==
    /\ trace.kind = "send_string"
    /\ caller.pc = "idle"
    /\ trace.text = Hi
    /\ trace.previous # <<>>
    /\ trace.previous[1].text = Overflowing
    /\ Rare(1) \notin DOMAIN Table
    /\ ~trace.keymap_updated

(***************************************************************************)
(* SpecParser: the combo table of the host keymap                          *)
(***************************************************************************)
\* what a level of a key of a host keymap holds: a, A, s or NoSymbol
LevelSyms == {<<97>>, <<65>>, <<115>>, <<0>>}

\* host keymaps of two keys with two levels each
ParserKeymaps ==
    {[minimum |-> XKB_KEYCODE_OFFSET, maximum |-> XKB_KEYCODE_MAX,
      mods |-> CompleteMods,
      keys |-> <<[name |-> KeyName("AC", 1), code |-> 38, syms |-> <<p, q>>],
                 [name |-> KeyName("AC", 2), code |-> 39, syms |-> <<r, s>>]>>,
      nul |-> FALSE] : p \in LevelSyms, q \in LevelSyms,
                       r \in LevelSyms, s \in LevelSyms}

\* one KeyboardEmulation is constructed, on a seat with any of the keymaps
NextParser ==
    \/ kb._refcount_emulate = 0 /\ Emulation
    \/ \E host_keymap \in ParserKeymaps : EmulationBody(host_keymap)
    \/ LoopReadFds

SpecParser == InitEmulate /\ [][NextParser]_vars

(***************************************************************************)
(* Claims about the combo table (checked under SpecParser)                 *)
(***************************************************************************)
\* the levels of a keymap that hold one named symbol, in the order of the
\* scan
Discoveries(keymap) ==
    SelectSeq(keymap_levels(keymap),
              LAMBDA d : /\ Len(d.keysym) = 1
                         /\ d.keysym[1] # 0
                         /\ d.keysym[1] \in DOMAIN keysym_names)

\* the normalized name of a symbol
NameOf(sym) ==
    IF is_xf86(keysym_names[sym]) THEN xf86_name(keysym_names[sym])
    ELSE str_lower(keysym_names[sym])

\* the first discovery of name in the scan
FirstOf(ds, name) ==
    CHOOSE i \in 1..Len(ds) :
        /\ NameOf(ds[i].keysym[1]) = name
        /\ \A j \in 1..(i - 1) : NameOf(ds[j].keysym[1]) # name

\* the earliest among the lowest-level discoveries of the symbol that
\* the first discovery of name carries
LowestOf(ds, name) ==
    LET sym == ds[FirstOf(ds, name)].keysym
        same == {i \in 1..Len(ds) : ds[i].keysym = sym}
    IN CHOOSE i \in same :
          \A j \in same : \/ ds[i].level < ds[j].level
                          \/ ds[i].level = ds[j].level /\ i <= j

\* the names discovered by the scan
NamesOf(ds) == {NameOf(ds[i].keysym[1]) : i \in 1..Len(ds)}

\* C14 as stated: every discovered name is bound to the key of its first
\* discovery, whatever follows it in the scan.
C14_FirstDiscoveryWins ==
    kb._replay_layout # None =>
       LET ds == Discoveries(kb._keymap[1])
       IN \A name \in NamesOf(ds) :
             kb._replay_layout[1][name][1] =
                ds[FirstOf(ds, name)].keycode - XKB_KEYCODE_OFFSET

\* C14: every discovered name is bound to a key that carries the symbol of
\* the name's first discovery: the key of the earliest discovery of that
\* symbol at its lowest level.  A later discovery of the name with another
\* symbol, or at the same or a higher level, leaves the binding alone; a
\* later discovery of the same symbol at a strictly lower level replaces
\* it.
C14_LowestLevelOfFirstSymbolWins ==
    kb._replay_layout # None =>
       LET ds == Discoveries(kb._keymap[1])
       IN /\ NamesOf(ds) \subseteq DOMAIN kb._replay_layout[1]
          /\ \A name \in NamesOf(ds) :
                kb._replay_layout[1][name][1] =
                   ds[LowestOf(ds, name)].keycode - XKB_KEYCODE_OFFSET

\* the table was built from a keymap where a symbol appears first at
\* level 1 and then, on the next key, at level 0, and the name is bound
\* to the second key
C14_Witness ==
    /\ kb._replay_layout # None
    /\ LET ds == Discoveries(kb._keymap[1])
       IN \E name \in NamesOf(ds) :
             /\ ds[FirstOf(ds, name)].level = 1
             /\ LowestOf(ds, name) # FirstOf(ds, name)
             /\ kb._replay_layout[1][name][1] = 39 - XKB_KEYCODE_OFFSET

(***************************************************************************)
(* Claims about the two capabilities together (checked under Spec)         *)
(***************************************************************************)
\* the call in progress is the deactivation of mode
Deactivates(mode) ==
    /\ caller.pc \in {"with", "join"}
    /\ \/ caller.op.kind = "decref" /\ caller.op.mode = mode
       \/ caller.op.kind = "cancel" /\ mode = "capture"

\* C15: when capture is deactivated for good while emulation is active,
\* the call returns at once and changes nothing but the capture side (its
\* count, the listeners, the input method and its grab): the output
\* keyboard, the synthesizer, the emulate count, the bound interfaces, the
\* replay keyboard, the combo table and the dispatch thread stay as they
\* are.  The connection goes away only in a call that leaves both counts
\* at 0, and once capture is off that is the deactivation of emulate.
C15_CaptureOffKeepsEmulation ==
    [][/\ (Deactivates("capture") /\ caller.pc = "with" /\ caller' # caller
              /\ kb._refcount_capture = 1 /\ kb._refcount_emulate > 0) =>
             /\ caller'.pc = "idle"
             /\ result'.exc = None
             /\ kb' = [kb EXCEPT !._refcount_capture = 0,
                                 !._event_listeners =
                                     [grab_key |-> {}, grab_modifiers |-> {}],
                                 !._grabbed_keyboard = None,
                                 !._input_method = None]
             /\ kb'._output_keyboard # None /\ kb'._output_layout # None
             /\ kb'._display # None /\ kb'._replay_keyboard # None
             /\ loop_pc' = loop_pc /\ loop_pc \notin {"none", "done"}
             /\ inbound' = inbound
       /\ (kb._display # None /\ kb'._display = None) =>
             /\ kb'._refcount_capture = 0 /\ kb'._refcount_emulate = 0
             /\ (caller.before[1] = 0 /\ caller.before[2] > 0) =>
                   Deactivates("emulate")]_vars

\* capture was cancelled while emulation was active, and then the
\* deactivation of emulate took the connection down
C15_Witness ==
    /\ caller.pc = "idle"
    /\ result.op.kind = "decref"
    /\ result.op.mode = "emulate"
    /\ result.exc = None
    /\ result.before = <<0, 1>>
    /\ \E f \in Facades : ~cap[f]._started
    /\ ConnectionAbsent
    /\ kb._output_keyboard = None

\* C16: whenever a call returns with both counts at 0, whatever came
\* before, the manager is in the state its constructor gives it, no
\* dispatch thread is left, nothing is pending and the lock is free; the
\* activation that follows starts from that state, as the first one did.
\* When capture is activated from count 0 the only listeners are those of
\* the facade that starts: a facade that registered before the
\* deactivation is not called again unless it registers again.
C16_FullDeactivationResets ==
    [][/\ (caller'.pc = "idle"
              /\ kb'._refcount_capture = 0 /\ kb'._refcount_emulate = 0) =>
             /\ kb' = KeyboardHandler__init__
             /\ loop_pc' = "none"
             /\ inbound' = <<>>
             /\ lock' = Unlocked
       /\ (caller.pc = "with" /\ caller.op.kind = "start"
              /\ caller'.pc = "idle" /\ kb._refcount_capture = 0
              /\ result'.exc = None) =>
             /\ kb'._event_listeners =
                   [grab_key |-> {caller.op.facade},
                    grab_modifiers |-> {caller.op.facade}]
             /\ (kb._refcount_emulate = 0) =>
                   kb' = incref(add_event_listeners(KeyboardHandler__init__,
                                                    caller.op.facade),
                                "capture", registry, kb'._keymap[1]).h]_vars

\* facade 1 was started and the counts were then taken to 0 without its
\* cancel; facade 2 started afterwards and is the only listener
C16_Witness ==
    /\ caller.pc = "idle"
    /\ result.op.kind = "start"
    /\ result.op.facade = 2
    /\ result.exc = None
    /\ result.before = <<0, 0>>
    /\ cap[1]._started
    /\ kb._event_listeners.grab_key = {2}
    /\ kb._refcount_capture = 1

(***************************************************************************)
(* SpecReenter: capture and emulation are active, the application thread   *)
(* sends backspaces, and so does a key callback on the dispatch thread     *)
(***************************************************************************)
\* a key_down or key_up callback that the handler of a grabbed key called
\* on the dispatch thread calls KeyboardEmulation.send_backspaces: up to
\* the body of its with statement
CallbackEnter ==
    /\ loop_pc = "dispatch"
    /\ inbound = <<>>
    /\ trace.kind = "grab_key"
    /\ trace.calls # <<>>
    /\ lock.count = 1
    /\ kb._output_keyboard # None
    /\ nsend < MaxSends
    /\ RLock_acquire(lock, "loop") # None
    /\ lock' = RLock_acquire(lock, "loop")[1]
    /\ UNCHANGED <<registry, kb, cap, caller, loop_pc, inbound, result, trace, nsend>>

\* the body of that call, and __exit__
CallbackSendBackspaces(count, timestamp) ==
    /\ loop_pc = "dispatch"
    /\ lock.owner = "loop"
    /\ lock.count > 1
    /\ kb' = send_backspaces(kb, count, timestamp)
    /\ lock' = RLock_release(lock)
    /\ nsend' = nsend + 1
    /\ UNCHANGED <<registry, cap, caller, loop_pc, inbound, result, trace>>

\* the grabbed key events: the press of a key that has a callback
ReenterEvents == {GrabKeyEvent(1000, 30, 1)}

\* one KeyboardCapture is started and one KeyboardEmulation constructed
NextReenter ==
    \/ kb._refcount_capture = 0 /\ Start(1)
    \/ \E host_keymap \in InitialKeymaps : StartBody(host_keymap)
    \/ kb._refcount_emulate = 0 /\ Emulation
    \/ \E host_keymap \in InitialKeymaps : EmulationBody(host_keymap)
    \/ \E count \in BackspaceCounts : SendBackspaces(count)
    \/ \E timestamp \in Timestamps : SendBackspacesBody(timestamp)
    \/ \E ev \in ReenterEvents : CompositorSend(ev)
    \/ LoopReadFds
    \/ LoopSelect
    \/ LoopLock
    \/ LoopDispatch
    \/ CallbackEnter
    \/ \E count \in BackspaceCounts, timestamp \in Timestamps :
          CallbackSendBackspaces(count, timestamp)
    \/ LoopFlush

SpecReenter == InitCapture /\ [][NextReenter]_vars

(***************************************************************************)
(* Claims about the lock (checked under SpecReenter)                       *)
(***************************************************************************)
\* a thread is inside a section that works on the manager's state
CallerInside == caller.pc \in {"with", "join"}
LoopInside == loop_pc = "dispatch"

\* C17: the application thread runs the body of every facade operation,
\* and the dispatch thread every dispatch, handler and flush, holding the
\* manager lock; the two are never inside at the same time; the manager's
\* state changes only in a step of the thread that holds the lock; and the
\* lock is re-entrant: the thread that holds it can take it again (a
\* handler that calls a facade operation on the dispatch thread does not
\* block), while the other thread cannot.
C17_OneThreadInside ==
    [][/\ CallerInside' => lock'.owner = "caller"
       /\ LoopInside' => lock'.owner = "loop"
       /\ ~(CallerInside' /\ LoopInside')
       /\ lock'.owner = "none" <=> lock'.count = 0
       /\ kb' # kb =>
             \/ CallerInside /\ lock.owner = "caller" /\ caller' # caller
             \/ LoopInside /\ lock.owner = "loop" /\ caller' = caller
       /\ lock'.owner = "loop" =>
             /\ RLock_acquire(lock', "loop") # None
             /\ RLock_acquire(lock', "caller") = None
       /\ lock'.owner = "caller" =>
             /\ RLock_acquire(lock', "caller") # None
             /\ RLock_acquire(lock', "loop") = None]_vars

\* a callback on the dispatch thread is inside a facade operation, holding
\* the lock a second time, and can go on
C17_Witness ==
    /\ lock = [owner |-> "loop", count |-> 2]
    /\ loop_pc = "dispatch"
    /\ caller.pc = "idle"
    /\ kb._output_keyboard # None
    /\ nsend = 1
    /\ ENABLED (\E count \in BackspaceCounts, timestamp \in Timestamps :
                   CallbackSendBackspaces(count, timestamp))

(***************************************************************************)
(* Claims about keymap pushes (checked under SpecEmulate)                  *)
(***************************************************************************)
\* what the step adds to the output keyboard
Added == SubSeq(Emitted(kb'), Len(Emitted(kb)) + 1, Len(Emitted(kb')))

LevelOf(combo) == IF combo[2] = 0 THEN 0 ELSE 1

\* C19: whatever was sent, the tables of the output layout agree: every
\* character of the character table has one slot, on a keycode other than
\* the reserved keycode 0, whose keymap entry is the character's keysym;
\* no two characters share a slot; and every extra mapping that records a
\* character is the slot of that character in the table.
C19_TablesConsistent ==
    kb._output_layout # None =>
       LET layout == kb._output_layout[1]
           extras == layout._extra_mappings
       IN /\ \A c \in DOMAIN Table :
                /\ Table[c][1] \in (DOMAIN layout._keymap) \ {0}
                /\ Table[c][2] \in {0, 1}
                /\ layout._keymap[Table[c][1]][LevelOf(Table[c])] =
                      Some(uchr_to_keysym(c))
          /\ Cardinality({Table[c] : c \in DOMAIN Table}) =
                Cardinality(DOMAIN Table)
          /\ \A j \in 1..Len(extras) :
                extras[j].char # None =>
                   /\ extras[j].char[1] \in DOMAIN Table
                   /\ Table[extras[j].char[1]][1] = extras[j].keycode
                   /\ LevelOf(Table[extras[j].char[1]]) = extras[j].mod_level
          /\ layout._next_extra_mapping_index \in 0..(Len(extras) - 1)

\* every extra mapping is taken, a character has been evicted and the
\* rotation has gone round once
C19_Witness ==
    /\ kb._output_layout # None
    /\ \A j \in 1..Pool : kb._output_layout[1]._extra_mappings[j].char # None
    /\ Rare(1) \notin DOMAIN Table
    /\ kb._output_layout[1]._next_extra_mapping_index = 1
    /\ caller.pc = "idle"

\* the keysym a key press produces under the key blocks of a keymap: the
\* symbol of the key's block at the level the Shift bit of the modifiers
\* selects (level 0 on a key with one level)
KeysymUnder(keys, key, mods) ==
    LET blocks == {i \in 1..Len(keys) : keys[i].code = key + XKB_KEYCODE_OFFSET}
        syms == keys[CHOOSE i \in blocks : TRUE].syms
    IN IF blocks = {} THEN <<>>
       ELSE IF mods % 2 = 1 /\ Len(syms) > 1 THEN syms[2] ELSE syms[1]

\* C20: for every send_string(text), the key presses of the call are as
\* many as the characters of text, in the order of text, and the i-th of
\* them, read under the keymap the output keyboard was last given and the
\* modifiers the call has set for it, produces the keysym of the i-th
\* character.
C20_PressesYieldText ==
    [][(caller.pc = "with" /\ caller.op.kind = "send_string"
            /\ caller'.pc = "idle") =>
          \A all \in {Emitted(kb')} :
          \A pushes \in {Positions(all, "keymap")} :
          \A keys \in {all[CHOOSE i \in pushes : \A j \in pushes : j <= i].keymap.keys} :
          \A presses \in {SelectSeq(SubSeq(all, Len(Emitted(kb)) + 1, Len(all)),
                                     LAMBDA r : r.request = "key" /\ r.state = 1)} :
          \A combos \in {trace'.combo_list} :
             /\ Len(presses) = Len(caller.op.text)
             /\ \A i \in 1..Len(caller.op.text) :
                   /\ presses[i].key = combos[i][1]
                   /\ KeysymUnder(keys, combos[i][1], combos[i][2])
                         = <<uchr_to_keysym(caller.op.text[i])>>]_vars


(***************************************************************************)
(* SpecStroke: one facade captures, its suppression set is chosen before   *)
(* the first key is forwarded, and the compositor sends the presses and    *)
(* releases of one key between modifiers events                            *)
(***************************************************************************)
\* requests the replay keyboard accepts in SpecStroke: the keymap of the
\* start, a modifiers event, a press and a release
MaxStrokeLog == 4

\* grabbed events of the strokes of "a" (wire keycode 30), and modifiers
\* events: none, Shift held, NumLock locked
StrokeEvents ==
    {GrabKeyEvent(1000, 30, 1), GrabKeyEvent(1001, 30, 0)}
    \cup {GrabModifiersEvent(m[1], m[2], m[3], 0) : m \in CaptureModifiers}

\* the compositor sends a grabbed event (one event is in flight at a time)
CompositorSendStroke(ev) ==
    /\ kb._display # None
    /\ inbound = <<>>
    /\ kb._grabbed_keyboard # None
    /\ kb._replay_keyboard # None
    /\ Len(kb._replay_keyboard[1].requests) < MaxStrokeLog
    /\ inbound' = Append(inbound, ev)
    /\ UNCHANGED <<registry, kb, cap, lock, caller, loop_pc, result, trace, nsend>>

\* the replay keyboard has received no key request yet
NoKeyForwarded ==
    \A i \in 1..Len(Replayed(kb)) : Replayed(kb)[i].request # "key"

NextStroke ==
    \/ kb._refcount_capture = 0 /\ Start(1)
    \/ \E host_keymap \in InitialKeymaps : StartBody(host_keymap)
    \/ \E keys \in SuppressedKeys : NoKeyForwarded /\ SuppressKeyboard(1, keys)
    \/ \E ev \in StrokeEvents : CompositorSendStroke(ev)
    \/ LoopReadFds
    \/ LoopSelect
    \/ LoopLock
    \/ LoopDispatch
    \/ LoopFlush

SpecStroke == InitCapture /\ [][NextStroke]_vars

(***************************************************************************)
(* Claims about key strokes (checked under SpecStroke)                     *)
(***************************************************************************)
\* the last request the replay keyboard received is the press of the key
\* of ev: the press was forwarded, and no modifiers event came after it
\* (every modifiers event is forwarded)
PressForwardedLast(ev) ==
    /\ Replayed(kb) # <<>>
    /\ LET last == Replayed(kb)[Len(Replayed(kb))]
       IN /\ last.request = "key"
          /\ last.key = ev.key
          /\ last.state = 1

\* facade f invoked key_down at that press: its modifier state, which no
\* event has changed since, is 0
KeyDownAtPress(f) == cap[f]._mod_state = 0

\* C21: when a key whose press was forwarded to the replay keyboard is
\* released, the release is forwarded too, and a facade invokes key_up
\* for it only if it invoked key_down for the press, also when a modifier
\* other than NumLock is held and the key is in the suppression set.
C21_PressAndReleaseAlike ==
    [][(Dispatches("grab_key") /\ Head(inbound).state = 0
            /\ PressForwardedLast(Head(inbound))) =>
          /\ Replayed(kb') = Append(Replayed(kb), Forwarded(Head(inbound)))
          /\ \A i \in 1..Len(trace'.calls) :
                trace'.calls[i].callback = "key_up"
                    => KeyDownAtPress(trace'.calls[i].facade)]_vars


(***************************************************************************)
(* SpecSlots: one KeyboardEmulation sends one text of new characters, of   *)
(* any length up to two more than there are extra mappings                 *)
(***************************************************************************)
\* the first n rare characters
RarePrefix(n) == [i \in 1..n |-> Rare(i)]

SlotTexts == {RarePrefix(n) : n \in 0..(Pool + 2)}

NextSlots ==
    \/ kb._refcount_emulate = 0 /\ Emulation
    \/ \E host_keymap \in InitialKeymaps : EmulationBody(host_keymap)
    \/ \E text \in SlotTexts : nsend = 0 /\ SendString(text)
    \/ \E timestamp \in LayoutTimestamps : SendStringBody(timestamp)
    \/ LoopReadFds

SpecSlots == InitEmulate /\ [][NextSlots]_vars

(***************************************************************************)
(* Claims about the levels of the output layout (checked under SpecSlots)  *)
(***************************************************************************)
\* the keycodes of a keymap table with a keysym at some level
Populated(keymap) ==
    {k \in DOMAIN keymap : \E l \in 0..(levels - 1) : keymap[k][l] # None}

\* C22: in every state of the output layout, a keycode with a keysym at
\* level 1 has one at level 0; so the key block to_xkb_def writes for the
\* keycode of a character's combo lists the character's keysym at the
\* position of the level the combo's modifiers select, and the key blocks
\* are, once each, that of the tag and those of the keycodes with a keysym
\* at some level.
C22_LevelsFilledInOrder ==
    kb._output_layout # None =>
       \A layout \in {kb._output_layout[1]} :
       \A keys \in {to_xkb_def(layout).keys} :
       \A populated \in {Populated(layout._keymap)} :
       \A block \in {[k \in populated |->
                        CHOOSE i \in 2..Len(keys) :
                            keys[i].code = XKB_KEYCODE_OFFSET + k]} :
          /\ \A k \in DOMAIN layout._keymap :
                layout._keymap[k][1] # None => layout._keymap[k][0] # None
          /\ \A c \in DOMAIN layout._char_to_combo :
                \A combo \in {layout._char_to_combo[c]} :
                   /\ combo[1] \in populated
                   /\ keys[block[combo[1]]].name = KeyName("C", combo[1])
                   /\ Len(keys[block[combo[1]]].syms) > LevelOf(combo)
                   /\ keys[block[combo[1]]].syms[LevelOf(combo) + 1] =
                         <<uchr_to_keysym(c)>>
          /\ keys[1].name = PLOVER_TAG
          /\ Len(keys) = 1 + Cardinality(populated)
          /\ {keys[i].code : i \in 2..Len(keys)} =
                {XKB_KEYCODE_OFFSET + k : k \in populated}

\* the first keycode without a static character has both levels bound,
\* the next one only level 0, and the key block of the first lists two
\* keysyms
C22_Witness ==
    /\ kb._output_layout # None
    /\ caller.pc = "idle"
    /\ \A keymap \in {kb._output_layout[1]._keymap} :
       \A first \in {Cardinality(Static) + 1} :
          /\ keymap[first][0] # None
          /\ keymap[first][1] # None
          /\ keymap[first + 1][0] # None
          /\ keymap[first + 1][1] = None
          /\ \E i \in 1..Len(to_xkb_def(kb._output_layout[1]).keys) :
                /\ to_xkb_def(kb._output_layout[1]).keys[i].code =
                      XKB_KEYCODE_OFFSET + first
                /\ Len(to_xkb_def(kb._output_layout[1]).keys[i].syms) = 2
=============================================================================
